---- MODULE Spec2Model ----
(***************************************************************************)
(* A model of the quiz store and progress aggregate of the study           *)
(* assistant backend (backend/app/progress_tracker.py): save_quiz,         *)
(* submit_quiz with its grading rules, _update_progress and get_progress.  *)
(*                                                                         *)
(* Python strings are sequences of one-character strings, so that strip,   *)
(* lower, split and the substring test are computed as Python computes     *)
(* them.  A float score is the exact ratio 100*correct/total in lowest     *)
(* terms, <<numerator, denominator>>; IEEE rounding of the last bit is not *)
(* modelled.  The two JSON files are the variables quizzes and progress,   *)
(* holding what _load_quizzes and _load_progress return from them.         *)
(*                                                                         *)
(* Further down: the same calls taken step by step by two worker           *)
(* processes, quiz generation (backend/app/quiz_generator.py) with the     *)
(* model's reply as an input, and the document index with upload and       *)
(* question answering (backend/app/rag_pipeline.py, backend/app/main.py).  *)
(***************************************************************************)
EXTENDS Integers, Sequences, FiniteSets, TLC

VARIABLES
    quizzes,        \* quizzes.json: quiz_id -> stored quiz
    progress,       \* progress.json: the progress aggregate ({} at first)
    ret,            \* outcome of the last completed call
    clock,          \* datetime.now(), as a logical clock
    activity_log,   \* history: every activity entry ever appended, in order
    uploads,        \* the files written to the upload directory, in order
    vector_store,   \* self.vector_store: whether it is None, and the chunks of the collection
    external_calls, \* the loader and model calls the last request made, in order
    procs           \* worker processes: the position and locals of each one's call

\* the document index and what surrounds it
rag_vars == <<uploads, vector_store, external_calls>>

vars == <<quizzes, progress, ret, clock, activity_log, rag_vars, procs>>

----------------------------------------------------------------------------
(* Python values *)

\* None in a position that otherwise holds a score
None == <<>>
\* None in a position that otherwise holds a topic string
NoneTopic == "None"

\* dict.get(key, default)
Get(d, key, default) == IF key \in DOMAIN d THEN d[key] ELSE default

\* the dict d with d[key] = value added or replaced
Put(d, key, value) ==
    [k \in DOMAIN d \cup {key} |-> IF k = key THEN value ELSE d[k]]

EmptyDict == [k \in {} |-> 0]

----------------------------------------------------------------------------
(* str.strip, str.lower, str.split, and the substring test `in` *)

Whitespace == {" ", "\t", "\n"}

UpperCase == <<"A","B","C","D","E","F","G","H","I","J","K","L","M",
               "N","O","P","Q","R","S","T","U","V","W","X","Y","Z">>
LowerCase == <<"a","b","c","d","e","f","g","h","i","j","k","l","m",
               "n","o","p","q","r","s","t","u","v","w","x","y","z">>

lower_char(c) ==
    IF \E i \in DOMAIN UpperCase : UpperCase[i] = c
    THEN LowerCase[CHOOSE i \in DOMAIN UpperCase : UpperCase[i] = c]
    ELSE c

lower(s) == [i \in 1..Len(s) |-> lower_char(s[i])]

RECURSIVE lstrip(_)
lstrip(s) ==
    IF s # <<>> /\ Head(s) \in Whitespace THEN lstrip(Tail(s)) ELSE s

RECURSIVE rstrip(_)
rstrip(s) ==
    IF s # <<>> /\ s[Len(s)] \in Whitespace
    THEN rstrip(SubSeq(s, 1, Len(s) - 1))
    ELSE s

strip(s) == rstrip(lstrip(s))

\* s.split(): the maximal runs of non-whitespace characters, in order
RECURSIVE split_from(_, _, _)
split_from(s, word, words) ==
    IF s = <<>>
    THEN IF word = <<>> THEN words ELSE Append(words, word)
    ELSE IF Head(s) \in Whitespace
         THEN split_from(Tail(s), <<>>,
                         IF word = <<>> THEN words ELSE Append(words, word))
         ELSE split_from(Tail(s), Append(word, Head(s)), words)

split(s) == split_from(s, <<>>, <<>>)

\* term in text
contains(text, term) ==
    \E i \in 0..(Len(text) - Len(term)) : SubSeq(text, i + 1, i + Len(term)) = term

----------------------------------------------------------------------------
(* Floats, as exact ratios <<numerator, denominator>> in lowest terms *)

RECURSIVE GCD(_, _)
GCD(a, b) == IF b = 0 THEN a ELSE GCD(b, a % b)

Ratio(n, d) == LET g == GCD(n, d) IN <<n \div g, d \div g>>

RatioAdd(x, y) == Ratio(x[1] * y[2] + y[1] * x[2], x[2] * y[2])

RatioLess(x, y) == x[1] * y[2] < y[1] * x[2]

RECURSIVE RatioSum(_)
RatioSum(xs) == IF xs = <<>> THEN <<0, 1>> ELSE RatioAdd(Head(xs), RatioSum(Tail(xs)))

\* round(n / d, 2): to the nearest hundredth, a tie to the even one
round2(n, d) ==
    LET q == (100 * n) \div d
        r == (100 * n) % d
        up == 2 * r > d \/ (2 * r = d /\ q % 2 = 1)
    IN  Ratio(IF up THEN q + 1 ELSE q, 100)

----------------------------------------------------------------------------
(* submit_quiz: grading *)

\* a key term is a word of more than this many characters
KeyTermMinLen == 4

\* an mcq rule that accepts an answer containing the correct one
mcq_is_correct_partial(user_answer, correct_answer) ==
    contains(lower(strip(user_answer)), lower(strip(correct_answer)))

\* question_type mcq: exact match after strip().lower()
mcq_is_correct(user_answer, correct_answer) ==
    lower(strip(user_answer)) = lower(strip(correct_answer))

key_terms(correct_lower) ==
    SelectSeq(split(correct_lower), LAMBDA word : Len(word) > KeyTermMinLen)

matches(terms, user_lower) ==
    Cardinality({i \in DOMAIN terms : contains(user_lower, terms[i])})

\* a keyword rule that asks for more than half of the key terms
short_answer_is_correct_strict(user_answer, correct_answer) ==
    LET user_lower == lower(strip(user_answer))
        correct_lower == lower(strip(correct_answer))
        terms == key_terms(correct_lower)
    IN  2 * matches(terms, user_lower) > Len(terms)

\* any other question_type: matches >= len(key_terms) * 0.5
short_answer_is_correct(user_answer, correct_answer) ==
    LET user_lower == lower(strip(user_answer))
        correct_lower == lower(strip(correct_answer))
        terms == key_terms(correct_lower)
    IN  2 * matches(terms, user_lower) >= Len(terms)

is_correct(question, user_answer) ==
    IF question.question_type = "mcq"
    THEN mcq_is_correct(user_answer, question.correct_answer)
    ELSE short_answer_is_correct(user_answer, question.correct_answer)

\* a lookup whose default is a placeholder instead of ""
user_answer_at_placeholder(answers, idx) == Get(answers, idx, <<"N", "/", "A">>)

\* answers.get(idx, "")
user_answer_at(answers, idx) == Get(answers, idx, <<>>)

\* results[idx], for the question at position idx (questions[idx + 1] here)
result_of(question, user_answer) ==
    [correct        |-> is_correct(question, user_answer),
     user_answer    |-> user_answer,
     correct_answer |-> question.correct_answer,
     question       |-> question.question,
     topic          |-> Get(question, "topic", "General")]

grade(questions, answers) ==
    [idx \in 0..(Len(questions) - 1) |->
        result_of(questions[idx + 1], user_answer_at(answers, idx))]

count_correct(results) == Cardinality({idx \in DOMAIN results : results[idx].correct})

\* a score computed with integer division
score_of_floored(correct_count, total) ==
    IF total > 0 THEN <<100 * (correct_count \div total), 1>> ELSE <<0, 1>>

\* (correct_count / len(questions)) * 100 if questions else 0
score_of(correct_count, total) ==
    IF total > 0 THEN Ratio(100 * correct_count, total) ELSE <<0, 1>>

----------------------------------------------------------------------------
(* json.dump followed by json.load *)

\* the positions that answers and results are keyed by lie below this
MaxPosition == 31

\* the decimal strings of the positions, -1 for an answer outside the quiz
Decimals == {ToString(i) : i \in -1..MaxPosition}

\* json writes an int key as its decimal string and a string key as it is
json_key(k) == IF ToString(k) \in Decimals THEN ToString(k) ELSE k

\* a dict keyed by int comes back keyed by the decimal strings; a dict that
\* json.load gave is keyed by them already
json_int_keys(d) ==
    LET keys == {json_key(k) : k \in DOMAIN d}
    IN  [s \in keys |-> d[CHOOSE k \in DOMAIN d : json_key(k) = s]]

\* a stored quiz: answers and results come back keyed by strings
json_quiz(quiz) ==
    [key \in DOMAIN quiz |->
        IF key \in {"answers", "results"} THEN json_int_keys(quiz[key]) ELSE quiz[key]]

\* topic_performance is an insertion-ordered dict: a sequence of
\* [topic, total, correct] with distinct topics
topic_index(perf, topic) ==
    IF \E i \in DOMAIN perf : perf[i].topic = topic
    THEN CHOOSE i \in DOMAIN perf : perf[i].topic = topic
    ELSE 0

\* the key None is written as "null"; when the key "null" is there already
\* the text holds "null" twice and json.load keeps the later value at the
\* earlier place
json_topic_keys(perf) ==
    LET n == topic_index(perf, NoneTopic)
        s == topic_index(perf, "null")
        renamed == [i \in DOMAIN perf |->
                       IF i = n THEN [perf[i] EXCEPT !.topic = "null"] ELSE perf[i]]
        merged == [i \in DOMAIN perf |->
                       IF i = s THEN [perf[n] EXCEPT !.topic = "null"] ELSE perf[i]]
    IN  IF n = 0 THEN perf
        ELSE IF s = 0 THEN renamed
        ELSE SelectSeq(merged, LAMBDA e : e.topic # NoneTopic)

json_progress(p) ==
    [key \in DOMAIN p |->
        IF key = "topic_performance" THEN json_topic_keys(p[key]) ELSE p[key]]

----------------------------------------------------------------------------
(* _update_progress *)

\* recent_activity keeps this many entries
RecentActivityCap == 20

\* seq[-n:]
last_n(seq, n) ==
    IF Len(seq) <= n THEN seq ELSE SubSeq(seq, Len(seq) - n + 1, Len(seq))

\* seq[:n]
first_n(seq, n) == IF Len(seq) <= n THEN seq ELSE SubSeq(seq, 1, n)

\* the missing keys of a progress dict, set to their zero
initialized(p) ==
    [key \in {"total_quizzes", "total_questions_attempted", "scores",
              "topic_performance", "recent_activity"} |->
        IF key \in DOMAIN p THEN p[key]
        ELSE IF key \in {"total_quizzes", "total_questions_attempted"} THEN 0
        ELSE <<>>]

\* an append that is skipped for a falsy score, 0
append_score_if_nonzero(scores, score) ==
    IF score = <<0, 1>> THEN scores ELSE Append(scores, score)

append_score(scores, score) == Append(scores, score)

\* a fold that counts a correct result as correct only, not as attempted
topic_update_miscounted(perf, result) ==
    LET topic == Get(result, "topic", "General")
        known == IF topic_index(perf, topic) = 0
                 THEN Append(perf, [topic |-> topic, total |-> 0, correct |-> 0])
                 ELSE perf
        i == topic_index(known, topic)
    IN  [known EXCEPT ![i] =
            [topic   |-> topic,
             total   |-> IF result.correct THEN @.total ELSE @.total + 1,
             correct |-> IF result.correct THEN @.correct + 1 ELSE @.correct]]

\* one result folded into topic_performance
topic_update(perf, result) ==
    LET topic == Get(result, "topic", "General")
        known == IF topic_index(perf, topic) = 0
                 THEN Append(perf, [topic |-> topic, total |-> 0, correct |-> 0])
                 ELSE perf
        i == topic_index(known, topic)
    IN  [known EXCEPT ![i] =
            [topic   |-> topic,
             total   |-> @.total + 1,
             correct |-> IF result.correct THEN @.correct + 1 ELSE @.correct]]

\* the results folded in, by ascending idx: from_idx .. len(results) - 1
RECURSIVE topics_updated(_, _, _)
topics_updated(perf, results, from_idx) ==
    IF from_idx \notin DOMAIN results THEN perf
    ELSE topics_updated(topic_update(perf, results[from_idx]), results, from_idx + 1)

activity_entry(quiz) ==
    [quiz_id         |-> quiz.quiz_id,
     score           |-> quiz.score,
     total_questions |-> Len(quiz.questions),
     timestamp       |-> quiz.submitted_at]

\* a trim that keeps the oldest entries
trim_activity_oldest(activity) == first_n(activity, RecentActivityCap)

trim_activity(activity) == last_n(activity, RecentActivityCap)

\* the progress file after _update_progress(quiz), given its content before
update_progress(stored, quiz) ==
    LET p == initialized(stored)
    IN  json_progress(
          [total_quizzes             |-> p.total_quizzes + 1,
           total_questions_attempted |-> p.total_questions_attempted + Len(quiz.questions),
           scores                    |-> append_score(p.scores, quiz.score),
           topic_performance         |-> topics_updated(p.topic_performance, quiz.results, 0),
           recent_activity           |-> trim_activity(
                                           Append(p.recent_activity, activity_entry(quiz)))])

----------------------------------------------------------------------------
(* get_progress *)

\* a topic is weak below this accuracy, in percent
WeakAccuracy == 70
\* this many weak areas are returned
WeakAreasCap == 10
\* this many activity entries are returned
ActivityReturned == 10

\* (perf["correct"] / perf["total"]) * 100 if perf["total"] > 0 else 0
accuracy_of(perf) ==
    IF perf.total > 0 THEN Ratio(100 * perf.correct, perf.total) ELSE <<0, 1>>

is_weak(perf) == RatioLess(accuracy_of(perf), <<WeakAccuracy, 1>>)

weak_entry(perf) ==
    LET accuracy == accuracy_of(perf)
    IN  [topic           |-> perf.topic,
         accuracy        |-> round2(accuracy[1], accuracy[2]),
         total_questions |-> perf.total,
         correct_answers |-> perf.correct]

\* list.sort(key=accuracy) is stable: e goes behind every entry that is
\* not greater
RECURSIVE insert_by_accuracy(_, _)
insert_by_accuracy(sorted, e) ==
    IF sorted = <<>> THEN <<e>>
    ELSE IF RatioLess(e.accuracy, Head(sorted).accuracy)
         THEN <<e>> \o sorted
         ELSE <<Head(sorted)>> \o insert_by_accuracy(Tail(sorted), e)

RECURSIVE sort_by_accuracy(_)
sort_by_accuracy(entries) ==
    IF entries = <<>> THEN <<>>
    ELSE insert_by_accuracy(sort_by_accuracy(SubSeq(entries, 1, Len(entries) - 1)),
                            entries[Len(entries)])

\* weak areas returned in the order of topic_performance
weak_areas_unsorted(topic_performance) ==
    LET weak == SelectSeq(topic_performance, is_weak)
        entries == [i \in 1..Len(weak) |-> weak_entry(weak[i])]
    IN  first_n(entries, WeakAreasCap)

weak_areas(topic_performance) ==
    LET weak == SelectSeq(topic_performance, is_weak)
        entries == [i \in 1..Len(weak) |-> weak_entry(weak[i])]
    IN  first_n(sort_by_accuracy(entries), WeakAreasCap)

\* an average cut off after the second decimal place
average_score_floor(scores) ==
    IF scores = <<>> THEN <<0, 1>>
    ELSE LET total == RatioSum(scores)
         IN  Ratio((100 * total[1]) \div (total[2] * Len(scores)), 100)

\* round(sum(scores) / len(scores) if scores else 0, 2)
average_score(scores) ==
    IF scores = <<>> THEN <<0, 1>>
    ELSE LET total == RatioSum(scores)
         IN  round2(total[1], total[2] * Len(scores))

progress_summary(p) ==
    [total_quizzes             |-> Get(p, "total_quizzes", 0),
     total_questions_attempted |-> Get(p, "total_questions_attempted", 0),
     average_score             |-> average_score(Get(p, "scores", <<>>)),
     weak_areas                |-> weak_areas(Get(p, "topic_performance", <<>>)),
     recent_activity           |-> last_n(Get(p, "recent_activity", <<>>), ActivityReturned)]

----------------------------------------------------------------------------
(* The operations *)

\* the worker processes that serve requests side by side
Workers == {"w1", "w2"}

\* a worker that has served no request yet
Idle == [pc |-> "idle", calls |-> 0]

Init ==
    /\ quizzes = EmptyDict
    /\ progress = EmptyDict
    /\ ret = [op |-> "init", status |-> "ok"]
    /\ clock = 0
    /\ activity_log = <<>>
    /\ uploads = <<>>
    /\ vector_store = [is_none |-> FALSE, chunks |-> <<>>]
    /\ external_calls = <<>>
    /\ procs = [w \in Workers |-> Idle]

\* {**quiz_data, "submitted": False, "score": None}
new_quiz(quiz_data) ==
    [key \in DOMAIN quiz_data \cup {"submitted", "score"} |->
        IF key = "submitted" THEN FALSE
        ELSE IF key = "score" THEN None
        ELSE quiz_data[key]]

\* _save_quizzes(data), then what _load_quizzes reads back
saved_quizzes(data) == [id \in DOMAIN data |-> json_quiz(data[id])]

save_quiz(quiz_data) ==
    /\ quizzes' = saved_quizzes(Put(quizzes, quiz_data.quiz_id, new_quiz(quiz_data)))
    /\ ret' = [op |-> "save_quiz", status |-> "ok", quiz_id |-> quiz_data.quiz_id]
    /\ UNCHANGED <<progress, clock, activity_log, rag_vars, procs>>

\* the quiz as submit_quiz leaves it in memory
submitted_quiz(quiz, answers, now) ==
    LET results == grade(quiz.questions, answers)
        score == score_of(count_correct(results), Len(quiz.questions))
    IN  [key \in DOMAIN quiz \cup {"answers", "results", "submitted_at"} |->
            CASE key = "submitted"    -> TRUE
              [] key = "score"        -> score
              [] key = "answers"      -> answers
              [] key = "results"      -> results
              [] key = "submitted_at" -> now
              [] OTHER                -> quiz[key]]

\* lines 64-119: the quiz graded, both files rewritten, the result returned
submit_found(quiz_id, stored, answers) ==
    LET quiz == submitted_quiz(stored, answers, clock)
    IN  /\ quizzes' = saved_quizzes(Put(quizzes, quiz_id, quiz))
        /\ progress' = update_progress(progress, quiz)
        /\ activity_log' = Append(activity_log, activity_entry(quiz))
        /\ clock' = clock + 1
        /\ UNCHANGED <<rag_vars, procs>>
        /\ ret' = [op |-> "submit_quiz", status |-> "ok",
                   quiz_id         |-> quiz_id,
                   answers         |-> answers,
                   score           |-> quiz.score,
                   total_questions |-> Len(quiz.questions),
                   correct_answers |-> count_correct(quiz.results),
                   results         |-> quiz.results]

\* a submit_quiz that takes an unknown id for a quiz without questions
submit_quiz_unchecked(quiz_id, answers) ==
    submit_found(quiz_id,
                 Get(quizzes, quiz_id, new_quiz([quiz_id |-> quiz_id, questions |-> <<>>])),
                 answers)

submit_quiz(quiz_id, answers) ==
    \/ /\ quiz_id \notin DOMAIN quizzes
       /\ ret' = [op |-> "submit_quiz", status |-> "ValueError",
                  quiz_id |-> quiz_id, answers |-> answers]
       /\ UNCHANGED <<quizzes, progress, clock, activity_log, rag_vars, procs>>
    \/ /\ quiz_id \in DOMAIN quizzes
       /\ submit_found(quiz_id, quizzes[quiz_id], answers)

get_progress ==
    /\ ret' = [op |-> "get_progress", status |-> "ok",
               summary |-> progress_summary(progress)]
    /\ UNCHANGED <<quizzes, progress, clock, activity_log, rag_vars, procs>>

----------------------------------------------------------------------------
(* Inputs: the strings, questions, quizzes and answers the calls are made with *)

Paris == <<"P","a","r","i","s">>
ParisPadded == <<" ","p","a","r","i","s"," ">>
ParisFrance == <<"P","a","r","i","s",","," ","F","r","a","n","c","e">>
Rome == <<"R","o","m","e">>
RomeLower == <<"r","o","m","e">>
MitochondriaProducesEnergy == <<"m","i","t","o","c","h","o","n","d","r","i","a"," ","p","r","o","d","u","c","e","s"," ","e","n","e","r","g","y">>
EnergyProduces == <<"E","n","e","r","g","y"," ","i","s"," ","w","h","a","t"," ","i","t"," ","P","R","O","D","U","C","E","S">>
EnergyOnly == <<"e","n","e","r","g","y">>
TheCell == <<"t","h","e"," ","c","e","l","l">>

QCapital ==
    [question |-> "capital of France", options |-> <<Paris, Rome>>,
     correct_answer |-> Paris, question_type |-> "mcq", topic |-> "Geography"]
QEnergy ==
    [question |-> "role of mitochondria", options |-> <<>>,
     correct_answer |-> MitochondriaProducesEnergy, question_type |-> "short_answer",
     topic |-> "Biology"]
QCell ==
    [question |-> "unit of life", options |-> <<>>,
     correct_answer |-> TheCell, question_type |-> "short_answer", topic |-> "Biology"]
\* the model's JSON gave "topic": null
QRome ==
    [question |-> "capital of Italy", options |-> <<Rome, Paris>>,
     correct_answer |-> Rome, question_type |-> "mcq", topic |-> NoneTopic]

QuizIds == {"q1", "q2"}

\* the question lists generate_quiz hands to save_quiz
QuestionLists == {<<>>, <<QCapital>>, <<QCapital, QEnergy, QCell, QRome>>}

\* quiz_data as generate_quiz returns it, created at time now
quiz_data_of(quiz_id, questions, now) ==
    [quiz_id |-> quiz_id, questions |-> questions, created_at |-> now]

\* the part of the dict d with keys in keys
Restrict(d, keys) == [k \in DOMAIN d \cap keys |-> d[k]]

AllRight == (0 :> ParisPadded) @@ (1 :> EnergyProduces) @@ (2 :> <<>>) @@ (3 :> RomeLower)
ThreeRight == (0 :> ParisFrance) @@ (1 :> MitochondriaProducesEnergy) @@ (2 :> TheCell) @@ (3 :> Rome)
OneRight == (0 :> Rome) @@ (1 :> EnergyOnly) @@ (3 :> Paris) @@ (7 :> Paris)

AnswerMaps == {EmptyDict, AllRight, ThreeRight, OneRight}

\* at most this many successful submissions
MaxSubmits == 2

Next ==
    \/ \E id \in QuizIds, questions \in QuestionLists :
          \* quiz_id is a fresh uuid4
          /\ id \notin DOMAIN quizzes
          /\ save_quiz(quiz_data_of(id, questions, clock))
    \/ \E id \in QuizIds, answers \in AnswerMaps :
          /\ Len(activity_log) < MaxSubmits
          /\ submit_quiz(id, answers)
    \/ get_progress

Spec == Init /\ [][Next]_vars

----------------------------------------------------------------------------
(* Grading, one submission at a time: one quiz, a wider choice of correct
   answers and of submitted answers *)

ParisUpperTabbed == <<"\t","P","A","R","I","S","\n">>
ParisSpaced == <<"P","a","r"," ","i","s">>
Par == <<"P","a","r">>
ParisTwice == <<"p","a","r","i","s"," ","p","a","r","i","s">>
OptionIndex == <<"0">>
OptionLetter == <<"A">>
Photosynthesis == <<"p","h","o","t","o","s","y","n","t","h","e","s","i","s">>
EnergyFromMitochondria == <<" ","E","n","e","r","g","y"," "," ","f","r","o","m"," ","t","h","e","\t","M","i","t","o","c","h","o","n","d","r","i","a"," ">>
WaterLightLight == <<"w","a","t","e","r"," ","l","i","g","h","t"," ","l","i","g","h","t">>
CellsDivide == <<"c","e","l","l","s"," ","d","i","v","i","d","e">>
MitochondrialEnergy == <<"t","h","e"," ","m","i","t","o","c","h","o","n","d","r","i","a","l"," ","e","n","e","r","g","y">>
ProducesUpper == <<"P","R","O","D","U","C","E","S">>
Light == <<"l","i","g","h","t">>
Water == <<"w","a","t","e","r">>
Cell == <<"c","e","l","l">>

mcq_question(correct_answer) ==
    [question |-> "choose one", options |-> <<correct_answer, Rome, Par, Light>>,
     correct_answer |-> correct_answer, question_type |-> "mcq", topic |-> "General"]

short_answer_question(correct_answer) ==
    [question |-> "explain", options |-> <<>>,
     correct_answer |-> correct_answer, question_type |-> "short_answer",
     topic |-> "General"]

GradingQuestionLists ==
    {<<mcq_question(c)>> : c \in {Paris, ParisPadded, ParisUpperTabbed, ParisFrance}}
    \cup {<<short_answer_question(c)>> :
            c \in {MitochondriaProducesEnergy, EnergyFromMitochondria, WaterLightLight,
                   Photosynthesis, CellsDivide, TheCell, <<>>}}
    \cup {<<>>, <<QCapital, QEnergy, QCell, QRome>>}

GradingAnswers ==
    {<<>>, Paris, ParisPadded, ParisUpperTabbed, ParisFrance, ParisSpaced, Par,
     ParisTwice, OptionIndex, OptionLetter,
     MitochondriaProducesEnergy, MitochondrialEnergy, EnergyOnly, EnergyProduces,
     ProducesUpper, Light, Water, Cell, CellsDivide}

QuestionIndexes == 0..3

GradingAnswerMaps ==
    {(0 :> a) : a \in GradingAnswers}
    \cup {Restrict(AllRight, present) : present \in SUBSET QuestionIndexes}
    \cup {ThreeRight, OneRight}

\* at most this many successful submissions of the grading quiz
MaxGradingSubmits == 1

NextGrading ==
    \/ \E questions \in GradingQuestionLists :
          /\ "g1" \notin DOMAIN quizzes
          /\ save_quiz(quiz_data_of("g1", questions, clock))
    \/ \E answers \in GradingAnswerMaps :
          /\ Len(activity_log) < MaxGradingSubmits
          /\ submit_quiz("g1", answers)
    \/ get_progress

SpecGrading == Init /\ [][NextGrading]_vars

----------------------------------------------------------------------------
(* The activity log over many submissions: one quiz submitted again and
   again without answers, a second quiz generated at any time *)

ActivityQuizIds == {"a1", "a2"}

ActivityQuestionLists == {<<>>, <<QCell>>, <<QCapital>>}

\* at most this many successful submissions
MaxActivitySubmits == 22

NextActivity ==
    \/ \E id \in ActivityQuizIds, questions \in ActivityQuestionLists :
          /\ id \notin DOMAIN quizzes
          /\ save_quiz(quiz_data_of(id, questions, clock))
    \/ /\ Len(activity_log) < MaxActivitySubmits
       /\ submit_quiz("a1", EmptyDict)
    \/ get_progress

SpecActivity == Init /\ [][NextActivity]_vars

----------------------------------------------------------------------------
(* Many topics: a quiz with one question per topic, and a short one *)

\* the number of topics of the long quiz
NumTopics == 12

topic_question(i) ==
    [question |-> "capital of France", options |-> <<Paris, Rome>>,
     correct_answer |-> Paris, question_type |-> "mcq",
     topic |-> "topic " \o ToString(i)]

TopicQuizIds == {"t1", "t2"}

TopicQuestionLists ==
    {[i \in 1..NumTopics |-> topic_question(i)],
     <<topic_question(2), topic_question(1), topic_question(2)>>}

\* the first `right` questions answered correctly, the others not answered
RightUpTo(right) == [idx \in 0..(right - 1) |-> Paris]
\* the questions from position `wrong` on answered correctly
RightFrom(wrong) == [idx \in wrong..(NumTopics - 1) |-> Paris]

TopicAnswerMaps == {EmptyDict, RightUpTo(1), RightUpTo(NumTopics \div 2), RightFrom(2)}

\* at most this many successful submissions
MaxTopicSubmits == 2

NextTopics ==
    \/ \E id \in TopicQuizIds, questions \in TopicQuestionLists :
          /\ id \notin DOMAIN quizzes
          /\ save_quiz(quiz_data_of(id, questions, clock))
    \/ \E id \in TopicQuizIds, answers \in TopicAnswerMaps :
          /\ Len(activity_log) < MaxTopicSubmits
          /\ submit_quiz(id, answers)
    \/ get_progress

SpecTopics == Init /\ [][NextTopics]_vars

----------------------------------------------------------------------------
(* Claims *)

\* what the last call was
Submitted == ret.op = "submit_quiz" /\ ret.status = "ok"
NotFound == ret.op = "submit_quiz" /\ ret.status = "ValueError"

\* C1: a submit_quiz whose quiz_id is no key of the quiz store fails with
\* the not-found ValueError, and a submit_quiz that fails so leaves the quiz
\* store and the progress aggregate exactly as they were before the call.
C1_UnknownQuizRejected ==
    [][ret'.op = "submit_quiz" =>
          /\ ret'.quiz_id \notin DOMAIN quizzes => ret'.status = "ValueError"
          /\ ret'.status = "ValueError" =>
                /\ ret'.quiz_id \notin DOMAIN quizzes
                /\ quizzes' = quizzes
                /\ progress' = progress]_vars

\* an unknown id was refused when both stores already held data
C1_Witness ==
    /\ NotFound
    /\ quizzes # EmptyDict
    /\ Get(progress, "total_quizzes", 0) > 0

----------------------------------------------------------------------------
(* Grading claims.  The reference notions below are stated over positions of
   the string, apart from the recursive strip and split of the model. *)

\* s from its first to its last non-whitespace character
Trimmed(s) ==
    LET solid == {i \in DOMAIN s : s[i] \notin Whitespace}
    IN  IF solid = {} THEN <<>>
        ELSE SubSeq(s, CHOOSE i \in solid : \A j \in solid : i <= j,
                       CHOOSE i \in solid : \A j \in solid : j <= i)

Normalized(s) == lower(Trimmed(s))

\* the whitespace-delimited tokens of s, as <<first, last>> positions
Tokens(s) ==
    {w \in (DOMAIN s) \X (DOMAIN s) :
        /\ w[1] <= w[2]
        /\ \A i \in w[1]..w[2] : s[i] \notin Whitespace
        /\ w[1] = 1 \/ s[w[1] - 1] \in Whitespace
        /\ w[2] = Len(s) \/ s[w[2] + 1] \in Whitespace}

KeyTermSpans(s) == {w \in Tokens(s) : w[2] - w[1] + 1 > 4}

Occurs(term, text) ==
    \E i \in 1..(Len(text) + 1), j \in 0..Len(text) : SubSeq(text, i, j) = term

MatchedSpans(correct, submitted) ==
    {w \in KeyTermSpans(correct) : Occurs(SubSeq(correct, w[1], w[2]), submitted)}

\* the question graded as results[idx] of the last submission
GradedQuestion(idx) == quizzes[ret.quiz_id].questions[idx + 1]

\* C2: an mcq question is marked correct iff the submitted answer, trimmed
\* and lower-cased, equals the stored correct answer, trimmed and
\* lower-cased: "Paris" is matched by " paris " and not by "Paris, France",
\* by a part of it, by a repetition or by an option index.
C2_McqExactMatch ==
    Submitted =>
        \A idx \in DOMAIN ret.results \cap DOMAIN ret.answers :
            LET q == GradedQuestion(idx)
                submitted == ret.answers[idx]
                marked == ret.results[idx].correct
            IN  q.question_type = "mcq" =>
                  /\ marked <=> Normalized(submitted) = Normalized(q.correct_answer)
                  /\ q.correct_answer = Paris /\ submitted = ParisPadded => marked
                  /\ q.correct_answer = Paris
                       /\ submitted \in {ParisFrance, Par, ParisTwice, ParisSpaced,
                                         OptionIndex, OptionLetter}
                       => ~marked

\* " paris " was accepted for "Paris"
C2_Witness ==
    /\ Submitted
    /\ \E idx \in DOMAIN ret.results \cap DOMAIN ret.answers :
          /\ GradedQuestion(idx).question_type = "mcq"
          /\ GradedQuestion(idx).correct_answer = Paris
          /\ ret.answers[idx] = ParisPadded
          /\ ret.results[idx].correct

\* C3: a question of another type is marked correct iff twice the number of
\* key terms (tokens of the lower-cased, trimmed correct answer longer than 4
\* characters) occurring in the lower-cased, trimmed submitted answer is at
\* least the number of key terms; with no key term any submission is
\* correct, with 3 key terms at least 2 must occur.
C3_ShortAnswerKeyTerms ==
    Submitted =>
        \A idx \in DOMAIN ret.results \cap DOMAIN ret.answers :
            LET q == GradedQuestion(idx)
                correct == Normalized(q.correct_answer)
                submitted == Normalized(ret.answers[idx])
                terms == Cardinality(KeyTermSpans(correct))
                found == Cardinality(MatchedSpans(correct, submitted))
                marked == ret.results[idx].correct
            IN  q.question_type # "mcq" =>
                  /\ marked <=> 2 * found >= terms
                  /\ terms = 0 => marked
                  /\ terms = 3 => (marked <=> found >= 2)
                  /\ q.correct_answer = MitochondriaProducesEnergy
                       => /\ terms = 3
                          /\ ret.answers[idx] = EnergyOnly => ~marked
                          /\ ret.answers[idx] = EnergyProduces => marked

\* one submission had 2 of 3 key terms accepted and an empty answer accepted
\* for a correct answer without key terms
C3_Witness ==
    /\ Submitted
    /\ \E idx \in DOMAIN ret.results \cap DOMAIN ret.answers :
          /\ GradedQuestion(idx).question_type = "short_answer"
          /\ Cardinality(KeyTermSpans(Normalized(GradedQuestion(idx).correct_answer))) = 3
          /\ Cardinality(MatchedSpans(Normalized(GradedQuestion(idx).correct_answer),
                                      Normalized(ret.answers[idx]))) = 2
          /\ ret.results[idx].correct
    /\ \E idx \in DOMAIN ret.results \cap DOMAIN ret.answers :
          /\ GradedQuestion(idx).question_type = "short_answer"
          /\ KeyTermSpans(Normalized(GradedQuestion(idx).correct_answer)) = {}
          /\ ret.answers[idx] = <<>>
          /\ ret.results[idx].correct

\* C4: the score returned and stored by submit_quiz is
\* correct_count / total_questions * 100 for a quiz with questions (3 of 4
\* gives 75) and 0 for a quiz without; correct_count is the number of
\* results marked correct, and the score lies between 0 and 100.
C4_Score ==
    Submitted =>
        LET total == Len(quizzes[ret.quiz_id].questions)
            correct == Cardinality({idx \in DOMAIN ret.results : ret.results[idx].correct})
        IN  /\ ret.total_questions = total
            /\ ret.correct_answers = correct
            /\ quizzes[ret.quiz_id].score = ret.score
            /\ total > 0 => ret.score[1] * total = 100 * correct * ret.score[2]
            /\ total = 0 => ret.score = <<0, 1>>
            /\ total = 4 /\ correct = 3 => ret.score = <<75, 1>>
            /\ ret.score[2] > 0
            /\ 0 <= ret.score[1] /\ ret.score[1] <= 100 * ret.score[2]

\* 3 of 4 questions were answered correctly
C4_Witness ==
    /\ Submitted
    /\ ret.total_questions = 4
    /\ ret.correct_answers = 3
    /\ ret.score = <<75, 1>>

\* how the empty string is graded against correct_answer
EmptyIsCorrect(q) ==
    IF q.question_type = "mcq"
    THEN Normalized(q.correct_answer) = <<>>
    ELSE 2 * Cardinality(MatchedSpans(Normalized(q.correct_answer), <<>>))
            >= Cardinality(KeyTermSpans(Normalized(q.correct_answer)))

\* C5: a submit_quiz for a stored quiz succeeds whichever question indexes
\* have no entry in answers; each such index gets a result, returned and
\* stored, with user_answer "" and graded as the empty string is.
C5_MissingAnswerIsEmpty ==
    [][ret'.op = "submit_quiz" /\ ret'.quiz_id \in DOMAIN quizzes =>
          /\ ret'.status = "ok"
          /\ \A idx \in 0..(Len(quizzes[ret'.quiz_id].questions) - 1) :
                idx \notin DOMAIN ret'.answers =>
                    /\ idx \in DOMAIN ret'.results
                    /\ ret'.results[idx].user_answer = <<>>
                    /\ ret'.results[idx].correct
                          <=> EmptyIsCorrect(quizzes[ret'.quiz_id].questions[idx + 1])
                    /\ quizzes'[ret'.quiz_id].results[ToString(idx)] = ret'.results[idx]]_vars

\* the 4-question quiz was submitted with answers for questions 1 and 3 only
C5_Witness ==
    /\ Submitted
    /\ ret.total_questions = 4
    /\ DOMAIN ret.answers = {1, 3}
    /\ ret.results[0].user_answer = <<>>
    /\ ret.results[1].user_answer # <<>>

\* the 4-question quiz was submitted with no answers at all
C5_WitnessNone ==
    /\ Submitted
    /\ ret.total_questions = 4
    /\ ret.answers = EmptyDict

----------------------------------------------------------------------------
(* Progress claims *)

Scores == Get(progress, "scores", <<>>)
TotalQuizzes == Get(progress, "total_quizzes", 0)
TopicPerformance == Get(progress, "topic_performance", <<>>)
RecentActivity == Get(progress, "recent_activity", <<>>)

RECURSIVE SumOf(_, _)
SumOf(perf, field) ==
    IF perf = <<>> THEN 0 ELSE Head(perf)[field] + SumOf(Tail(perf), field)

\* C6: after any sequence of completed save_quiz, submit_quiz and
\* get_progress calls from an empty progress store, len(scores) is
\* total_quizzes.
C6_ScoresLength == Len(Scores) = TotalQuizzes

\* two submissions were recorded, one of them with score 0
C6_Witness ==
    /\ TotalQuizzes = 2
    /\ \E i \in DOMAIN Scores : Scores[i] = <<0, 1>>

\* C7: after any sequence of completed submissions every topic has
\* 0 <= correct <= total, and the sum of correct over the topics is at most
\* the sum of total.
C7_CorrectAtMostTotal ==
    /\ \A i \in DOMAIN TopicPerformance :
          /\ 0 <= TopicPerformance[i].correct
          /\ TopicPerformance[i].correct <= TopicPerformance[i].total
    /\ SumOf(TopicPerformance, "correct") <= SumOf(TopicPerformance, "total")

\* several topics are recorded, one all correct and one partly correct
C7_Witness ==
    /\ Len(TopicPerformance) >= 2
    /\ \E i \in DOMAIN TopicPerformance :
          TopicPerformance[i].correct = TopicPerformance[i].total
    /\ \E i \in DOMAIN TopicPerformance :
          /\ 0 < TopicPerformance[i].correct
          /\ TopicPerformance[i].correct < TopicPerformance[i].total

\* C10: a stored quiz is created with submitted = false and score = null,
\* and once it is submitted no later call changes its submitted, score,
\* answers or results.
C10_MutatedOnce ==
    [][/\ \A id \in DOMAIN quizzes' \ DOMAIN quizzes :
             ~quizzes'[id].submitted /\ quizzes'[id].score = None
       /\ \A id \in DOMAIN quizzes :
             quizzes[id].submitted =>
                 /\ quizzes'[id].submitted
                 /\ quizzes'[id].score = quizzes[id].score
                 /\ quizzes'[id].answers = quizzes[id].answers
                 /\ quizzes'[id].results = quizzes[id].results]_vars

\* C8: recent_activity has at most 20 entries and is the activity entries of
\* the most recent min(20, number of submissions) submissions in submission
\* order, so the 21st entry evicts the oldest.
C8_RecentActivityBounded ==
    LET kept == Len(RecentActivity)
        all == Len(activity_log)
    IN  /\ kept <= 20
        /\ kept = IF all < 20 THEN all ELSE 20
        /\ \A i \in 1..kept : RecentActivity[i] = activity_log[all - kept + i]

\* after 22 submissions the entries of the first two are gone
C8_Witness ==
    /\ Len(activity_log) = 22
    /\ Len(RecentActivity) = 20
    /\ RecentActivity[1] = activity_log[3]
    /\ RecentActivity[1].timestamp = 2
    /\ RecentActivity[20].timestamp = 21

\* the topics of topic_performance with correct / total below 70%
WeakTopics ==
    {TopicPerformance[i].topic : i \in
        {i \in DOMAIN TopicPerformance :
            10 * TopicPerformance[i].correct < 7 * TopicPerformance[i].total}}

\* entry e reports the counts of its topic, and its accuracy is
\* 100 * correct / total to within half a hundredth
ReportsTopic(e) ==
    \E i \in DOMAIN TopicPerformance :
        /\ TopicPerformance[i].topic = e.topic
        /\ TopicPerformance[i].total = e.total_questions
        /\ TopicPerformance[i].correct = e.correct_answers
        /\ LET diff == 100 * e.correct_answers * e.accuracy[2]
                         - e.accuracy[1] * e.total_questions
           IN  /\ 200 * diff <= e.total_questions * e.accuracy[2]
               /\ -200 * diff <= e.total_questions * e.accuracy[2]

----------------------------------------------------------------------------
(* save_quiz and submit_quiz taken step by step by worker processes.  Each
   worker holds its own ProgressTracker over the same two files and takes no
   lock.  open(path, "w") empties the file and the text reaches it when the
   file is closed; an empty or garbled file makes _load_quizzes and
   _load_progress return {}.  A worker's record keeps the locals of its call
   after the call has returned. *)

\* the calls the workers ws have started
RECURSIVE calls_taken(_)
calls_taken(ws) ==
    IF ws = {} THEN 0
    ELSE LET w == CHOOSE x \in ws : TRUE
         IN  procs[w].calls + calls_taken(ws \ {w})

\* no worker is inside a call
quiescent == \A w \in Workers : procs[w].pc \in {"idle", "done"}

\* what a file can hold once w has closed it: w's text, or, when another
\* worker's text landed in the file while w had it open, possibly w's text
\* followed by the rest of the other's, which no longer parses
file_after_close(w, data) == IF procs[w].torn THEN {data, EmptyDict} ELSE {data}

\* every other worker with its own handle open at position pc sees the file
\* written under it
others_torn(w, pc, mine) ==
    [v \in Workers |->
        IF v = w THEN mine
        ELSE IF procs[v].pc = pc THEN Put(procs[v], "torn", TRUE)
        ELSE procs[v]]

\* save_quiz, lines 48-54: the store loaded and the quiz put in the copy
start_save_quiz(w, quiz_data) ==
    /\ procs[w].pc \in {"idle", "done"}
    /\ procs' = [procs EXCEPT ![w] =
                    [pc      |-> "open_quizzes",
                     calls   |-> procs[w].calls + 1,
                     op      |-> "save_quiz",
                     quiz_id |-> quiz_data.quiz_id,
                     quizzes |-> Put(quizzes, quiz_data.quiz_id, new_quiz(quiz_data))]]
    /\ UNCHANGED <<quizzes, progress, ret, clock, activity_log, rag_vars>>

\* submit_quiz, lines 59-107: the store loaded, the quiz looked up and graded
\* in the copy
start_submit_quiz(w, quiz_id, answers) ==
    /\ procs[w].pc \in {"idle", "done"}
    /\ \/ /\ quiz_id \notin DOMAIN quizzes
          /\ ret' = [op |-> "submit_quiz", status |-> "ValueError",
                     quiz_id |-> quiz_id, answers |-> answers]
          /\ procs' = [procs EXCEPT ![w] =
                          [pc      |-> "done",
                           calls   |-> procs[w].calls + 1,
                           op      |-> "submit_quiz",
                           quiz_id |-> quiz_id,
                           status  |-> "ValueError"]]
          /\ UNCHANGED clock
       \/ /\ quiz_id \in DOMAIN quizzes
          /\ LET quiz == submitted_quiz(quizzes[quiz_id], answers, clock)
             IN  procs' = [procs EXCEPT ![w] =
                              [pc      |-> "open_quizzes",
                               calls   |-> procs[w].calls + 1,
                               op      |-> "submit_quiz",
                               quiz_id |-> quiz_id,
                               quiz    |-> quiz,
                               quizzes |-> Put(quizzes, quiz_id, quiz)]]
          /\ clock' = clock + 1
          /\ UNCHANGED ret
    /\ UNCHANGED <<quizzes, progress, activity_log, rag_vars>>

\* _save_quizzes, line 29: open(self.quizzes_file, "w")
open_quizzes(w) ==
    /\ procs[w].pc = "open_quizzes"
    /\ quizzes' = EmptyDict
    /\ procs' = [procs EXCEPT ![w] =
                    Put(Put(procs[w], "pc", "close_quizzes"), "torn", FALSE)]
    /\ UNCHANGED <<progress, ret, clock, activity_log, rag_vars>>

\* _save_quizzes, lines 30-31: json.dump and the end of the with block; then
\* save_quiz returns and submit_quiz goes on to _update_progress
close_quizzes(w) ==
    /\ procs[w].pc = "close_quizzes"
    /\ \E text \in file_after_close(w, saved_quizzes(procs[w].quizzes)) :
          quizzes' = text
    /\ IF procs[w].op = "save_quiz"
       THEN /\ procs' = others_torn(w, "close_quizzes",
                           Put(Put(procs[w], "pc", "done"), "status", "ok"))
            /\ ret' = [op |-> "save_quiz", status |-> "ok", quiz_id |-> procs[w].quiz_id]
       ELSE /\ procs' = others_torn(w, "close_quizzes",
                           Put(procs[w], "pc", "load_progress"))
            /\ UNCHANGED ret
    /\ UNCHANGED <<progress, clock, activity_log, rag_vars>>

\* _update_progress, lines 123-163: the aggregate loaded; the changes are made
\* to the copy
load_progress(w) ==
    /\ procs[w].pc = "load_progress"
    /\ procs' = [procs EXCEPT ![w] =
                    Put(Put(procs[w], "pc", "open_progress"), "progress", progress)]
    /\ UNCHANGED <<quizzes, progress, ret, clock, activity_log, rag_vars>>

\* _save_progress, line 42: open(self.progress_file, "w")
open_progress(w) ==
    /\ procs[w].pc = "open_progress"
    /\ progress' = EmptyDict
    /\ procs' = [procs EXCEPT ![w] =
                    Put(Put(procs[w], "pc", "close_progress"), "torn", FALSE)]
    /\ UNCHANGED <<quizzes, ret, clock, activity_log, rag_vars>>

\* a _save_progress that reads the file again instead of writing the copy the
\* call loaded
progress_written_reread(w) == update_progress(progress, procs[w].quiz)

\* the aggregate the call of w writes: lines 137-163 applied to its copy
progress_written(w) == update_progress(procs[w].progress, procs[w].quiz)

\* _save_progress, lines 43-44, and the return of submit_quiz, lines 112-119
close_progress(w) ==
    /\ procs[w].pc = "close_progress"
    /\ \E text \in file_after_close(w, progress_written(w)) : progress' = text
    /\ activity_log' = Append(activity_log, activity_entry(procs[w].quiz))
    /\ procs' = others_torn(w, "close_progress",
                   Put(Put(procs[w], "pc", "done"), "status", "ok"))
    /\ ret' = [op |-> "submit_quiz", status |-> "ok",
               quiz_id         |-> procs[w].quiz_id,
               answers         |-> procs[w].quiz.answers,
               score           |-> procs[w].quiz.score,
               total_questions |-> Len(procs[w].quiz.questions),
               correct_answers |-> count_correct(procs[w].quiz.results),
               results         |-> procs[w].quiz.results]
    /\ UNCHANGED <<quizzes, clock, rag_vars>>

\* the quiz both workers submit, and the one a worker saves meanwhile
SharedQuizId == "q1"
OtherQuizId == "q2"

WorkerAnswerMaps == {EmptyDict, (0 :> Paris)}

\* at most this many calls are started by the workers, all together
MaxWorkerCalls == 2

NextWorkers ==
    \/ /\ calls_taken(Workers) = 0
       /\ SharedQuizId \notin DOMAIN quizzes
       /\ save_quiz(quiz_data_of(SharedQuizId, <<QCapital>>, clock))
    \/ \E w \in Workers :
          /\ calls_taken(Workers) < MaxWorkerCalls
          /\ OtherQuizId \notin DOMAIN quizzes
          /\ start_save_quiz(w, quiz_data_of(OtherQuizId, <<QCell>>, clock))
    \/ \E w \in Workers, id \in {SharedQuizId, OtherQuizId}, answers \in WorkerAnswerMaps :
          /\ calls_taken(Workers) < MaxWorkerCalls
          /\ start_submit_quiz(w, id, answers)
    \/ \E w \in Workers : open_quizzes(w)
    \/ \E w \in Workers : close_quizzes(w)
    \/ \E w \in Workers : load_progress(w)
    \/ \E w \in Workers : open_progress(w)
    \/ \E w \in Workers : close_progress(w)

SpecWorkers == Init /\ [][NextWorkers]_vars

----------------------------------------------------------------------------
(* The claims on concurrent calls *)

\* worker w has returned from a submit_quiz that found its quiz
SubmitReturned(w) ==
    /\ procs[w].pc = "done"
    /\ procs[w].op = "submit_quiz"
    /\ procs[w].status = "ok"

\* worker w has returned from a call that wrote the quiz store
StoreWritten(w) == procs[w].pc = "done" /\ procs[w].status = "ok"

\* every worker has served at most one call and none is inside a call
OneCallEach == quiescent /\ \A w \in Workers : procs[w].calls <= 1

\* C11: the calls of separate workers are unlocked load, modify, save cycles.
\* The progress file never counts more quizzes than submissions have
\* completed, and once two workers have each served one call, each file
\* holds what one single call computed from the copy it had loaded (or text
\* that no longer parses), whatever the other call wrote in between: a write
\* made between a call's load and its save is lost.
C11_UnlockedCycles ==
    /\ Get(progress, "total_quizzes", 0) <= Len(activity_log)
    /\ (OneCallEach /\ \E w \in Workers : SubmitReturned(w)) =>
          \/ progress = EmptyDict
          \/ \E w \in Workers : /\ SubmitReturned(w)
                /\ progress = update_progress(procs[w].progress, procs[w].quiz)
    /\ (OneCallEach /\ \E w \in Workers : StoreWritten(w)) =>
          \/ quizzes = EmptyDict
          \/ \E w \in Workers :
                StoreWritten(w) /\ quizzes = saved_quizzes(procs[w].quizzes)

\* both workers have returned from submit_quiz, each loaded the progress file
\* before the other wrote it, no file was garbled, and the progress file
\* counts one quiz
C11_Witness ==
    /\ \A w \in Workers : SubmitReturned(w) /\ procs[w].progress = EmptyDict
    /\ \A w \in Workers : ~procs[w].torn
    /\ Len(activity_log) = 2
    /\ progress # EmptyDict
    /\ progress.total_quizzes = 1
    /\ Len(progress.scores) = 1

\* a worker's save_quiz and another's submit_quiz have both returned, and the
\* quiz store shows the submitted quiz as never submitted
C11_WitnessQuizStore ==
    /\ \E w \in Workers : procs[w].pc = "done" /\ procs[w].op = "save_quiz"
    /\ \E w \in Workers : SubmitReturned(w) /\ procs[w].quiz_id = SharedQuizId
    /\ \A w \in Workers : ~procs[w].torn
    /\ DOMAIN quizzes = {SharedQuizId, OtherQuizId}
    /\ ~quizzes[SharedQuizId].submitted

----------------------------------------------------------------------------
(* The document index: rag_pipeline.py, and the upload handler of main.py.
   A file is given by its name and by what its loader and the text splitter
   make of its content; retrieval returns the k best chunks in an order the
   embedding decides. *)

\* str.split(sep)
RECURSIVE split_by(_, _)
split_by(s, sep) ==
    LET hits == {i \in 1..(Len(s) - Len(sep) + 1) : SubSeq(s, i, i + Len(sep) - 1) = sep}
    IN  IF hits = {} THEN <<s>>
        ELSE LET i == CHOOSE h \in hits : \A g \in hits : h <= g
             IN  <<SubSeq(s, 1, i - 1)>> \o split_by(SubSeq(s, i + Len(sep), Len(s)), sep)

Pdf == <<"p","d","f">>
Docx == <<"d","o","c","x">>
Txt == <<"t","x","t">>

\* main.py line 53: ["pdf", "docx", "txt"]
SupportedTypes == {Pdf, Docx, Txt}

\* file.filename.split(".")[-1].lower()
file_ext(filename) ==
    LET parts == split_by(filename, <<".">>)
    IN  lower(parts[Len(parts)])

\* load_document: the loader of the type run on the file, or the error raised
load_document(file, file_type) ==
    IF file_type \notin SupportedTypes
    THEN [raised |-> "Error loading document: Unsupported file type", loaders |-> <<>>]
    ELSE IF ~file.readable
    THEN [raised |-> "Error loading document: loader failed",
          loaders |-> <<[call |-> "loader", file_type |-> file_type]>>]
    ELSE [documents |-> file.chunks,
          loaders |-> <<[call |-> "loader", file_type |-> file_type]>>]

\* doc.metadata.update(metadata), kept by every chunk split from the document
with_metadata(chunks, metadata) ==
    [i \in 1..Len(chunks) |-> [page_content |-> chunks[i], metadata |-> metadata]]

\* process_and_index_documents: the chunks added to the collection, or the
\* error, and the loaders run
process_and_index_documents(file, file_type, metadata) ==
    LET loaded == load_document(file, file_type)
    IN  IF "raised" \in DOMAIN loaded THEN loaded
        ELSE [chunks  |-> with_metadata(loaded.documents, metadata),
              loaders |-> loaded.loaders]

\* main.py lines 59-85: the file written, then loaded, split and indexed
upload_saved(file, file_type) ==
    LET file_id == Len(uploads) + 1
        indexed == process_and_index_documents(file, file_type,
                      [filename |-> file.filename, uploaded_at |-> clock, file_id |-> file_id])
    IN  /\ uploads' = Append(uploads, [file_id |-> file_id, file_ext |-> file_type])
        /\ external_calls' = indexed.loaders
        /\ IF "raised" \in DOMAIN indexed
           THEN /\ ret' = [op |-> "upload_document", status |-> 500,
                           filename |-> file.filename, detail |-> indexed.raised]
                /\ UNCHANGED vector_store
           ELSE /\ vector_store' = [is_none |-> FALSE,
                                    chunks  |-> vector_store.chunks \o indexed.chunks]
                /\ ret' = [op |-> "upload_document", status |-> 200,
                           filename |-> file.filename,
                           file_id |-> file_id,
                           chunks_created |-> Len(indexed.chunks)]
        /\ UNCHANGED <<quizzes, progress, clock, activity_log, procs>>

\* str(e) of the HTTPException of lines 54-57
UnsupportedFileType == "400: Unsupported file type. Please upload PDF, DOCX, or TXT files."

\* an upload handler that leaves the check of the type to load_document
upload_document_unvalidated(file) == upload_saved(file, file_ext(file.filename))

\* main.py upload_document
upload_document(file) ==
    \/ /\ file_ext(file.filename) \notin SupportedTypes
       \* HTTPException(400) is raised inside the try and caught by
       \* `except Exception`, which raises HTTPException(500, str(e))
       /\ ret' = [op |-> "upload_document", status |-> 500,
                  filename |-> file.filename,
                  detail |-> UnsupportedFileType]
       /\ external_calls' = <<>>
       /\ UNCHANGED <<quizzes, progress, clock, activity_log, uploads, vector_store, procs>>
    \/ /\ file_ext(file.filename) \in SupportedTypes
       /\ upload_saved(file, file_ext(file.filename))

\* clear_vector_store: the directory removed and the collection made anew
clear_vector_store ==
    /\ vector_store' = [is_none |-> FALSE, chunks |-> <<>>]
    /\ external_calls' = <<>>
    /\ ret' = [op |-> "clear_vector_store", status |-> "ok"]
    /\ UNCHANGED <<quizzes, progress, clock, activity_log, uploads, procs>>

RECURSIVE reversed(_)
reversed(seq) == IF seq = <<>> THEN <<>> ELSE Append(reversed(Tail(seq)), Head(seq))

\* the orders in which similarity search can rank the stored chunks
Rankings == {"stored", "reversed"}

\* retriever.get_relevant_documents(query) with search_kwargs {"k": k}
get_relevant_documents(k, ranking) ==
    first_n(IF ranking = "stored" THEN vector_store.chunks ELSE reversed(vector_store.chunks), k)

\* get_relevant_chunks(query, k)
get_relevant_chunks(k, ranking) ==
    IF vector_store.is_none THEN <<>> ELSE get_relevant_documents(k, ranking)

\* answer_question(question, k=4)
AnswerK == 4
\* retrieved_docs[:3]
SourcesCap == 3
\* doc.page_content[:200]
PreviewLen == 200

Ellipsis == <<".", ".", ".">>

NoDocumentsAnswer == "No documents have been uploaded yet. Please upload study materials first."

\* lines 163-166
source_info(doc) ==
    [content  |-> first_n(doc.page_content, PreviewLen) \o Ellipsis,
     metadata |-> doc.metadata]

\* answer_question: llm is what the chat model does when the chain invokes it
answer_question(question, ranking, llm) ==
    LET retrieved_docs == get_relevant_documents(AnswerK, ranking)
        sources == [i \in 1..Len(first_n(retrieved_docs, SourcesCap)) |->
                       source_info(retrieved_docs[i])]
    IN  /\ IF vector_store.is_none
           THEN /\ ret' = [op |-> "answer_question", status |-> "ok", question |-> question,
                           answer |-> NoDocumentsAnswer, sources |-> <<>>]
                /\ external_calls' = <<>>
           ELSE /\ external_calls' = <<[call |-> "llm", op |-> "answer_question",
                                        context |-> Len(retrieved_docs)]>>
                /\ IF "raised" \in DOMAIN llm
                   THEN ret' = [op |-> "answer_question", status |-> "raised",
                                question |-> question, detail |-> llm.raised]
                   ELSE ret' = [op |-> "answer_question", status |-> "ok",
                                question |-> question,
                                answer |-> llm.content, sources |-> sources]
        /\ UNCHANGED <<quizzes, progress, clock, activity_log, uploads, vector_store, procs>>

----------------------------------------------------------------------------
(* Quiz generation: quiz_generator.py.  What json.loads returns is a Python
   value with its type.  The reply of the chat model is a sequence of pieces:
   code fences, white space, and stretches of text that json.loads either
   accepts, giving a value, or rejects. *)

PyNone == [type |-> "NoneType"]
PyStr(s) == [type |-> "str", value |-> s]
PyList(items) == [type |-> "list", items |-> items]
PyDict(fields) == [type |-> "dict", fields |-> fields]

\* the value of a stretch of text that json.loads rejects
NotJson == [type |-> "not json"]

\* the marker of a code block that names json, and the bare marker
FenceJson == [kind |-> "fence json"]
Fence == [kind |-> "fence"]
Space == [kind |-> "space"]
Text(value) == [kind |-> "text", value |-> value]

\* the pieces the bare marker is found in: the json marker begins with it
Fences == {Fence, FenceJson}

\* the pieces after piece i up to the next piece among stops
RECURSIVE pieces_until(_, _, _)
pieces_until(content, i, stops) ==
    IF i >= Len(content) \/ content[i + 1] \in stops THEN <<>>
    ELSE <<content[i + 1]>> \o pieces_until(content, i + 1, stops)

first_piece(content, kinds) ==
    CHOOSE i \in DOMAIN content :
        content[i] \in kinds /\ \A j \in 1..(i - 1) : content[j] \notin kinds

\* lines 114-117
fenced_part(content) ==
    IF \E i \in DOMAIN content : content[i] = FenceJson
    THEN pieces_until(content, first_piece(content, {FenceJson}), Fences)
    ELSE IF \E i \in DOMAIN content : content[i] \in Fences
    THEN pieces_until(content, first_piece(content, Fences), Fences)
    ELSE content

RECURSIVE lstrip_pieces(_)
lstrip_pieces(content) ==
    IF content # <<>> /\ Head(content) = Space THEN lstrip_pieces(Tail(content))
    ELSE content

\* content.strip()
strip_pieces(content) == reversed(lstrip_pieces(reversed(lstrip_pieces(content))))

\* json.loads(text): the value, or JSONDecodeError for text that is empty,
\* is not JSON, or goes on after the value
json_loads(content) ==
    IF /\ Len(content) = 1
       /\ content[1].kind = "text"
       /\ content[1].value # NotJson
    THEN [value |-> content[1].value]
    ELSE [raised |-> "JSONDecodeError"]

\* result.get("questions", [])
get_questions(result) ==
    IF result.type = "dict"
    THEN [value |-> Get(result.fields, "questions", PyList(<<>>))]
    ELSE [raised |-> "AttributeError"]

RECURSIVE keys_of(_)
keys_of(keys) ==
    IF keys = {} THEN <<>>
    ELSE LET k == CHOOSE x \in keys : TRUE
         IN  <<PyStr(k)>> \o keys_of(keys \ {k})

\* for q in questions: the values the loop visits (a str gives its
\* characters, a dict its keys), or TypeError
iterated(questions) ==
    CASE questions.type = "list" -> [value |-> questions.items]
      [] questions.type = "str" ->
            [value |-> [i \in 1..Len(questions.value) |-> PyStr(<<questions.value[i]>>)]]
      [] questions.type = "dict" -> [value |-> keys_of(DOMAIN questions.fields)]
      [] OTHER -> [raised |-> "TypeError"]

\* topic or "General"
topic_or_general(topic) == IF topic \in {NoneTopic, ""} THEN "General" ELSE topic

\* lines 125-131 and 192-198: one formatted question, or the error q raises
formatted_question(q, question_type, topic) ==
    IF q.type # "dict" THEN [raised |-> "TypeError"]
    ELSE IF "question" \notin DOMAIN q.fields THEN [raised |-> "KeyError"]
    ELSE IF question_type = "mcq" /\ "options" \notin DOMAIN q.fields
    THEN [raised |-> "KeyError"]
    ELSE IF "correct_answer" \notin DOMAIN q.fields THEN [raised |-> "KeyError"]
    ELSE [value |-> [question       |-> q.fields.question,
                     options        |-> IF question_type = "mcq" THEN q.fields.options
                                        ELSE PyList(<<>>),
                     correct_answer |-> q.fields.correct_answer,
                     question_type  |-> question_type,
                     topic          |-> Get(q.fields, "topic", PyStr(topic_or_general(topic)))]]

\* the loop of lines 123-131: every item is formatted, the first error ends it
RECURSIVE formatted_questions(_, _, _)
formatted_questions(items, question_type, topic) ==
    IF items = <<>> THEN [value |-> <<>>]
    ELSE LET first == formatted_question(Head(items), question_type, topic)
         IN  IF "raised" \in DOMAIN first THEN first
             ELSE LET rest == formatted_questions(Tail(items), question_type, topic)
                  IN  IF "raised" \in DOMAIN rest THEN rest
                      ELSE [value |-> <<first.value>> \o rest.value]

\* len(sentence) > 50
SentenceMinLen == 50
\* sentence[:50] in the question of the fallback mcq
McqQuestionPreview == 50
\* sentence[:100] if len(sentence) > 100 else sentence
McqAnswerLen == 100
\* sentence[:80] in the question of the fallback short answer
ShortAnswerPreview == 80

SentenceSeparator == <<".", " ">>

WhatIsMentionedAbout == <<"W","h","a","t"," ","i","s"," ","m","e","n","t","i","o","n","e","d"," ","a","b","o","u","t",":"," ">>
EllipsisQuestion == <<".",".",".","?">>
Explain == <<"E","x","p","l","a","i","n",":"," ">>
OptionB == <<"O","p","t","i","o","n"," ","B"," ","(","i","n","c","o","r","r","e","c","t",")">>
OptionC == <<"O","p","t","i","o","n"," ","C"," ","(","i","n","c","o","r","r","e","c","t",")">>
OptionD == <<"O","p","t","i","o","n"," ","D"," ","(","i","n","c","o","r","r","e","c","t",")">>

\* context.split(". ")[:num_questions * 2], of which the loop visits
\* sentences[:num_questions]
fallback_sentences(context, num_questions) ==
    first_n(first_n(split_by(context, SentenceSeparator), num_questions * 2), num_questions)

\* lines 214-225
fallback_mcq_question(sentence) ==
    [question       |-> PyStr(WhatIsMentionedAbout \o first_n(sentence, McqQuestionPreview)
                              \o EllipsisQuestion),
     options        |-> PyList(<<PyStr(first_n(sentence, McqAnswerLen)),
                                 PyStr(OptionB), PyStr(OptionC), PyStr(OptionD)>>),
     correct_answer |-> PyStr(first_n(sentence, McqAnswerLen)),
     question_type  |-> "mcq",
     topic          |-> PyStr("General")]

\* lines 236-242
fallback_short_answer_question(sentence) ==
    [question       |-> PyStr(Explain \o first_n(sentence, ShortAnswerPreview) \o Ellipsis),
     options        |-> PyList(<<>>),
     correct_answer |-> PyStr(sentence),
     question_type  |-> "short_answer",
     topic          |-> PyStr("General")]

\* the loops of lines 212-225 and 234-242
RECURSIVE fallback_questions(_, _)
fallback_questions(sentences, question_type) ==
    IF sentences = <<>> THEN <<>>
    ELSE IF Len(Head(sentences)) > SentenceMinLen
    THEN <<IF question_type = "mcq" THEN fallback_mcq_question(Head(sentences))
           ELSE fallback_short_answer_question(Head(sentences))>>
         \o fallback_questions(Tail(sentences), question_type)
    ELSE fallback_questions(Tail(sentences), question_type)

\* _fallback_mcq_generation and _fallback_short_answer_generation
fallback_generation(question_type, context, num_questions) ==
    first_n(fallback_questions(fallback_sentences(context, num_questions), question_type),
            num_questions)

\* a generator that returns every question the model sent
truncated_not(questions, num_questions) == questions

\* formatted_questions[:num_questions]
truncated(questions, num_questions) == first_n(questions, num_questions)

\* except json.JSONDecodeError
recovered(raised) == raised = "JSONDecodeError"

\* the statements of the try block after json.loads: each runs unless an
\* earlier one raised
got_questions(loaded) ==
    IF "raised" \in DOMAIN loaded THEN loaded ELSE get_questions(loaded.value)

questions_iterated(questions) ==
    IF "raised" \in DOMAIN questions THEN questions ELSE iterated(questions.value)

questions_formatted(items, question_type, topic) ==
    IF "raised" \in DOMAIN items THEN items
    ELSE formatted_questions(items.value, question_type, topic)

\* the end of _generate_mcq and _generate_short_answer: the slice of the
\* formatted questions, or what the except clause makes of the error raised
\* in the try block; an error of the call of the model itself is outside it
returned_questions(reply, formatted, question_type, context, num_questions) ==
    IF "raised" \in DOMAIN reply THEN [raised |-> reply.raised]
    ELSE IF "raised" \notin DOMAIN formatted
    THEN [value |-> truncated(formatted.value, num_questions)]
    ELSE IF recovered(formatted.raised)
    THEN [value |-> fallback_generation(question_type, context, num_questions)]
    ELSE [raised |-> formatted.raised]

\* _generate_mcq and _generate_short_answer from the reply on (lines 109-138
\* and 178-204): the questions returned, or the error raised
generated_questions(question_type, context, num_questions, topic, reply) ==
    returned_questions(
        reply,
        questions_formatted(
            questions_iterated(
                got_questions(json_loads(strip_pieces(fenced_part(reply.content))))),
            question_type, topic),
        question_type, context, num_questions)

\* context[:8000]
PromptContextLen == 8000

\* self.llm.invoke(formatted_prompt), lines 102-108 and 171-177, with the reply
llm_call(question_type, context, num_questions, reply) ==
    [call          |-> "llm",
     op            |-> question_type,
     num_questions |-> num_questions,
     context_len   |-> Len(first_n(context, PromptContextLen)),
     reply         |-> reply]

\* get_relevant_chunks(query, k=15)
GenerateK == 15
\* chunks[:10]
ContextChunks == 10

ParagraphBreak == <<"\n", "\n">>

\* "\n\n".join(texts)
RECURSIVE joined(_)
joined(texts) ==
    IF texts = <<>> THEN <<>>
    ELSE IF Len(texts) = 1 THEN texts[1]
    ELSE texts[1] \o ParagraphBreak \o joined(Tail(texts))

\* line 47
context_of(chunks) ==
    joined([i \in 1..Len(first_n(chunks, ContextChunks)) |-> chunks[i].page_content])

NoDocumentsAvailable == "No documents available. Please upload study materials first."

\* a generate_quiz that goes on with an empty context
no_chunks_accepted(chunks) == FALSE

\* if not chunks
no_chunks(chunks) == chunks = <<>>

\* a split that gives the odd question to the mcq part
mcq_count_rounded_up(num_questions) == (num_questions + 1) \div 2

\* line 55: num_questions // 2
mcq_count_of(num_questions) == num_questions \div 2

\* lines 61-67: the quiz of the questions, or the error that ended the call
quiz_of(questions, quiz_id, calls) ==
    IF "raised" \in DOMAIN questions
    THEN [raised |-> questions.raised, detail |-> questions.raised, calls |-> calls]
    ELSE [value |-> [quiz_id |-> quiz_id, questions |-> questions.value,
                     created_at |-> clock],
          calls |-> calls]

\* line 59: mcq_questions + sa_questions; an error of the first generation
\* ends the call before the second one
mixed_questions(mcq_questions, sa_questions) ==
    IF "raised" \in DOMAIN mcq_questions THEN mcq_questions
    ELSE IF "raised" \in DOMAIN sa_questions THEN sa_questions
    ELSE [value |-> mcq_questions.value \o sa_questions.value]

\* lines 50-67, with the calls made up to the end of the call or to the error
generate_from(context, retrieval, num_questions, question_type, topic, quiz_id, replies) ==
    IF question_type \in {"mcq", "short_answer"}
    THEN quiz_of(generated_questions(question_type, context, num_questions, topic, replies[1]),
                 quiz_id,
                 retrieval \o <<llm_call(question_type, context, num_questions, replies[1])>>)
    ELSE LET mcq_count == mcq_count_of(num_questions)
             sa_count == num_questions - mcq_count
             mcq_questions == generated_questions("mcq", context, mcq_count, topic, replies[1])
             first == retrieval \o <<llm_call("mcq", context, mcq_count, replies[1])>>
         IN  quiz_of(mixed_questions(
                         mcq_questions,
                         generated_questions("short_answer", context, sa_count, topic,
                                             replies[2])),
                     quiz_id,
                     IF "raised" \in DOMAIN mcq_questions THEN first
                     ELSE first \o <<llm_call("short_answer", context, sa_count, replies[2])>>)

\* lines 41-47: the chunks retrieved, the error when there is none
generate_from_chunks(chunks, retrieval, num_questions, question_type, topic, quiz_id, replies) ==
    IF no_chunks(chunks)
    THEN [raised |-> "ValueError", detail |-> NoDocumentsAvailable, calls |-> retrieval]
    ELSE generate_from(context_of(chunks), retrieval, num_questions, question_type, topic,
                       quiz_id, replies)

\* generate_quiz: the quiz returned or the error raised, and the calls made.
\* replies[1] and replies[2] answer the first and the second call of the model.
generate_quiz(num_questions, question_type, topic, quiz_id, ranking, replies) ==
    generate_from_chunks(get_relevant_chunks(GenerateK, ranking),
                         <<[call |-> "retriever", k |-> GenerateK, ranking |-> ranking]>>,
                         num_questions, question_type, topic, quiz_id, replies)

\* the Python value without its type, as json.dump writes it
RECURSIVE untyped(_)
untyped(v) ==
    CASE v.type = "str" -> v.value
      [] v.type = "list" -> [i \in 1..Len(v.items) |-> untyped(v.items[i])]
      [] v.type = "dict" -> [k \in DOMAIN v.fields |-> untyped(v.fields[k])]
      [] OTHER -> None

\* a question as the quiz store holds it
stored_question(q) ==
    [question       |-> untyped(q.question),
     options        |-> untyped(q.options),
     correct_answer |-> untyped(q.correct_answer),
     question_type  |-> q.question_type,
     topic          |-> IF q.topic.type = "NoneType" THEN NoneTopic ELSE untyped(q.topic)]

\* models.py QuizQuestion: what QuizResponse(...) accepts
valid_question(q) ==
    /\ q.question.type = "str"
    /\ q.options.type = "list"
    /\ \A i \in DOMAIN q.options.items : q.options.items[i].type = "str"
    /\ q.correct_answer.type = "str"
    /\ q.topic.type \in {"str", "NoneType"}

\* main.py generate_quiz: the handler of POST /api/quiz/generate
api_quiz_generate(num_questions, question_type, topic, quiz_id, ranking, replies) ==
    \E generated \in {generate_quiz(num_questions, question_type, topic, quiz_id,
                                     ranking, replies)},
       request \in {[num_questions |-> num_questions, question_type |-> question_type,
                     topic |-> topic]} :
        /\ external_calls' = generated.calls
        /\ IF "raised" \in DOMAIN generated
           THEN /\ ret' = [op |-> "generate_quiz",
                           status |-> IF generated.raised = "ValueError" THEN 400 ELSE 500,
                           request |-> request,
                           detail |-> generated.detail]
                /\ UNCHANGED quizzes
           ELSE LET quiz_data == generated.value
                    questions == [i \in 1..Len(quiz_data.questions) |->
                                     stored_question(quiz_data.questions[i])]
                IN  /\ quizzes' = saved_quizzes(
                           Put(quizzes, quiz_id,
                               new_quiz(quiz_data_of(quiz_id, questions, quiz_data.created_at))))
                    \* a ValidationError is a ValueError
                    /\ ret' = [op |-> "generate_quiz",
                               status |-> IF \A i \in DOMAIN quiz_data.questions :
                                                valid_question(quiz_data.questions[i])
                                          THEN 200 ELSE 400,
                               request |-> request,
                               detail |-> "",
                               quiz |-> quiz_data]
        /\ UNCHANGED <<progress, clock, activity_log, uploads, vector_store, procs>>

----------------------------------------------------------------------------
(* Generation from uploaded files: the files, the requests and the replies of
   the model *)

\* word repeated up to n characters
Repeated(word, n) == [i \in 1..n |-> word[((i - 1) % Len(word)) + 1]]

MitochondriaMakeEnergy == <<"m","i","t","o","c","h","o","n","d","r","i","a"," ","m","a","k","e"," ","e","n","e","r","g","y"," ">>
LeavesTakeInLight == <<"l","e","a","v","e","s"," ","t","a","k","e"," ","i","n"," ","l","i","g","h","t"," ","a","n","d"," ","w","a","t","e","r"," ">>
WaterMoves == <<"w","a","t","e","r"," ","m","o","v","e","s"," ","t","h","r","o","u","g","h"," ","t","h","e"," ","s","t","e","m"," ">>

\* a sentence of 5 characters, one of 60 and one of 120
ChunkCells ==
    <<"C","e","l","l","s","."," ">> \o Repeated(MitochondriaMakeEnergy, 60)
        \o SentenceSeparator \o Repeated(LeavesTakeInLight, 120)

\* a sentence of 55 characters and one of 3
ChunkWater == Repeated(WaterMoves, 55) \o <<"."," ","E","n","d">>

CellsTxt ==
    [filename |-> <<"c","e","l","l","s",".","t","x","t">>, readable |-> TRUE,
     chunks |-> <<ChunkCells, ChunkWater>>]
\* a file without text
EmptyTxt == [filename |-> <<"e","m","p","t","y",".","t","x","t">>, readable |-> TRUE, chunks |-> <<>>]
NotesMd == [filename |-> <<"n","o","t","e","s",".","m","d">>, readable |-> TRUE, chunks |-> <<ChunkWater>>]

GenerateFiles == {CellsTxt, EmptyTxt, NotesMd}

\* item i of the "questions" list, as the prompt asks for it
reply_item(i) ==
    PyDict([question       |-> PyStr("question " \o ToString(i)),
            options        |-> PyList(<<PyStr(Paris), PyStr(Rome)>>),
            correct_answer |-> PyStr(Paris),
            topic          |-> PyStr("Biology")])

with_field(item, key, value) == PyDict(Put(item.fields, key, value))
without_field(item, key) == PyDict(Restrict(item.fields, DOMAIN item.fields \ {key}))

\* {"questions": items}
questions_object(items) == PyDict([questions |-> PyList(items)])

\* {"questions": [k items]}
reply_object(k) == questions_object([i \in 1..k |-> reply_item(i)])

\* a reply that is this JSON text and nothing else
reply_of(value) == [content |-> <<Text(value)>>]

\* at most this many questions are asked for
MaxNumQuestions == 5

WellFormedReplies ==
    {reply_of(reply_object(k)) : k \in {0, 2, MaxNumQuestions + 1}}
    \cup {\* prose, then the object in a json code block, then prose
          [content |-> <<Text(NotJson), FenceJson, Space, Text(reply_object(2)), Space,
                         Fence, Space, Text(NotJson)>>],
          \* the object in a bare code block
          [content |-> <<Fence, Space, Text(reply_object(3)), Fence>>],
          \* the object between white space
          [content |-> <<Space, Text(reply_object(1)), Space>>]}

TopicReplies ==
    {reply_of(questions_object(<<without_field(reply_item(1), "topic")>>)),
     reply_of(questions_object(<<with_field(reply_item(1), "topic", PyNone)>>)),
     reply_of(questions_object(<<with_field(reply_item(1), "topic", PyStr(""))>>))}

\* replies that json.loads rejects
UnparsedReplies ==
    {reply_of(NotJson),
     [content |-> <<>>],
     \* the object before a code block that holds prose
     [content |-> <<Text(reply_object(2)), Fence, Text(NotJson), Fence>>]}

\* replies that are JSON of another shape
MisshapenReplies ==
    {reply_of(PyList(<<reply_item(1)>>)),
     reply_of(PyDict(EmptyDict)),
     reply_of(PyDict([questions |-> PyNone])),
     reply_of(PyDict([questions |-> PyStr(<<>>)])),
     reply_of(questions_object(<<reply_item(1), without_field(reply_item(2), "correct_answer")>>)),
     reply_of(questions_object(<<without_field(reply_item(1), "options")>>)),
     reply_of(questions_object(<<PyStr("question 1")>>)),
     reply_of(questions_object(<<with_field(reply_item(1), "options", PyNone)>>))}

\* the model cannot be reached
Unreachable == [raised |-> "ConnectionError"]

Replies ==
    WellFormedReplies \cup TopicReplies \cup UnparsedReplies \cup MisshapenReplies
    \cup {Unreachable}

\* the replies to the first and to the second call of a mixed quiz
FirstReplies ==
    {reply_of(reply_object(2)),
     reply_of(reply_object(MaxNumQuestions + 1)),
     [content |-> <<Text(NotJson), FenceJson, Space, Text(reply_object(2)), Space,
                    Fence, Space, Text(NotJson)>>],
     reply_of(NotJson),
     reply_of(questions_object(<<reply_item(1), without_field(reply_item(2), "correct_answer")>>)),
     Unreachable}

SecondReplies ==
    {reply_of(reply_object(2)),
     reply_of(reply_object(MaxNumQuestions + 1)),
     reply_of(questions_object(<<with_field(reply_item(1), "topic", PyNone)>>)),
     reply_of(NotJson),
     reply_of(questions_object(<<without_field(reply_item(1), "question")>>)),
     Unreachable}

QuestionTypes == {"mcq", "short_answer"}
\* "mixed", and a type the handler does not know
MixedTypes == {"mixed", "essay"}

RequestTopics == {NoneTopic, "", "Botany"}

GeneratedQuizIds == {"quiz-1"}

\* at most this many files are stored by the upload handler
MaxGenerateUploads == 1

\* A generation request leaves the index as it is and reads neither ret nor
\* external_calls, so a request that follows another one has nothing new to
\* start from: the requests are taken from the states that uploads leave.
NextGenerate ==
    \/ \E file \in GenerateFiles :
          /\ Len(uploads) < MaxGenerateUploads
          /\ upload_document(file)
    \/ \E num_questions \in 0..MaxNumQuestions, question_type \in QuestionTypes,
          topic \in RequestTopics, quiz_id \in GeneratedQuizIds \ DOMAIN quizzes,
          ranking \in Rankings, reply \in Replies :
          /\ ret.op # "generate_quiz"
          /\ api_quiz_generate(num_questions, question_type, topic, quiz_id, ranking, <<reply>>)
    \/ \E num_questions \in 0..MaxNumQuestions, question_type \in MixedTypes,
          quiz_id \in GeneratedQuizIds \ DOMAIN quizzes,
          ranking \in Rankings, first \in FirstReplies, second \in SecondReplies :
          /\ ret.op # "generate_quiz"
          /\ api_quiz_generate(num_questions, question_type, "Botany", quiz_id, ranking,
                               <<first, second>>)

SpecGenerate == Init /\ [][NextGenerate]_vars

----------------------------------------------------------------------------
(* The claims on quiz generation *)

\* the last request was a quiz generation
Generated == ret.op = "generate_quiz"

\* generate_quiz returned a quiz to the handler
QuizReturned == Generated /\ "quiz" \in DOMAIN ret

\* the calls of the chat model that the last request made
ModelCalls == SelectSeq(external_calls, LAMBDA c : c.call = "llm")

\* an object with a "questions" list whose items carry the required keys
ExpectedShape(v, question_type) ==
    /\ v.type = "dict"
    /\ "questions" \in DOMAIN v.fields
    /\ v.fields.questions.type = "list"
    /\ \A i \in DOMAIN v.fields.questions.items :
          LET item == v.fields.questions.items[i]
          IN  /\ item.type = "dict"
              /\ {"question", "correct_answer"} \subseteq DOMAIN item.fields
              /\ question_type = "mcq" => "options" \in DOMAIN item.fields

\* the JSON texts found anywhere in the reply to call c
JsonTexts(c) ==
    IF "content" \notin DOMAIN c.reply THEN {}
    ELSE {c.reply.content[i].value : i \in {j \in DOMAIN c.reply.content :
             /\ c.reply.content[j].kind = "text"
             /\ c.reply.content[j].value # NotJson}}

\* the model replied to call c, and nothing in the reply is JSON of the
\* expected shape
Malformed(c) ==
    /\ "content" \in DOMAIN c.reply
    /\ \A v \in JsonTexts(c) : ~ExpectedShape(v, c.op)

\* the model replied to call c, and nothing in the reply is JSON
Unparsed(c) == "content" \in DOMAIN c.reply /\ JsonTexts(c) = {}

\* the reply to call c is one JSON text of the expected shape, bare or in a
\* code block of its own, whatever else surrounds it
WellFormed(c) ==
    /\ "content" \in DOMAIN c.reply
    /\ Cardinality(JsonTexts(c)) = 1
    /\ \A v \in JsonTexts(c) : ExpectedShape(v, c.op)
    /\ LET content == SelectSeq(c.reply.content, LAMBDA piece : piece # Space)
           at == CHOOSE i \in DOMAIN content :
                    content[i].kind = "text" /\ content[i].value # NotJson
           fences == {i \in DOMAIN content : content[i] \in Fences}
       IN  \/ fences = {}  /\ Len(content) = 1
           \/ /\ at - 1 \in fences
              /\ \A i \in fences : i >= at - 1
              /\ at + 1 \in fences

\* the questions the model sent in reply to call c
Sent(c) ==
    LET v == CHOOSE x \in JsonTexts(c) : TRUE
    IN  v.fields.questions.items

\* C12: (the claim as the specification states it) a reply of the model that
\* is not JSON of the expected shape always ends in a list of questions: a
\* generation whose last call of the model got such a reply returns a quiz.
C12_MalformedRecovered ==
    (Generated /\ ModelCalls # <<>> /\ Malformed(ModelCalls[Len(ModelCalls)]))
        => QuizReturned

\* C13: a mixed request of n questions that reaches the model asks first for
\* the integer half of n mcq questions and then, if that call returned, for
\* the remaining n minus that many short_answer questions, and makes no other
\* call; the quiz returned is the mcq questions, at most the number asked,
\* followed by the short_answer questions, at most the number asked, each part
\* being the first questions the model sent when its reply was well formed.
C13_MixedSplit ==
    (Generated /\ ret.request.question_type = "mixed" /\ ModelCalls # <<>>) =>
        LET n == ret.request.num_questions
            calls == ModelCalls
            half == calls[1].num_questions
        IN  /\ calls[1].op = "mcq"
            /\ 2 * half <= n /\ n < 2 * half + 2
            /\ Len(calls) <= 2
            /\ Len(calls) = 2 =>
                  /\ calls[2].op = "short_answer"
                  /\ calls[2].num_questions = n - half
            /\ QuizReturned =>
                  /\ Len(calls) = 2
                  /\ \E k \in 0..Len(ret.quiz.questions) :
                        /\ k <= half
                        /\ Len(ret.quiz.questions) - k <= n - half
                        /\ \A i \in DOMAIN ret.quiz.questions :
                              ret.quiz.questions[i].question_type =
                                 IF i <= k THEN "mcq" ELSE "short_answer"
                        /\ WellFormed(calls[1]) =>
                              /\ k = IF Len(Sent(calls[1])) < half
                                     THEN Len(Sent(calls[1])) ELSE half
                              /\ \A i \in 1..k :
                                    ret.quiz.questions[i].question =
                                       Sent(calls[1])[i].fields.question
                        /\ WellFormed(calls[2]) =>
                              /\ Len(ret.quiz.questions) - k =
                                    IF Len(Sent(calls[2])) < n - half
                                    THEN Len(Sent(calls[2])) ELSE n - half
                              /\ \A i \in 1..(Len(ret.quiz.questions) - k) :
                                    ret.quiz.questions[k + i].question =
                                       Sent(calls[2])[i].fields.question

\* a mixed quiz of 5 questions came back as 2 mcq questions followed by 3
\* short_answer questions, the model having sent more of each
C13_Witness ==
    /\ QuizReturned
    /\ ret.request.question_type = "mixed"
    /\ ret.request.num_questions = 5
    /\ Len(ModelCalls) = 2
    /\ WellFormed(ModelCalls[1]) /\ Len(Sent(ModelCalls[1])) > 2
    /\ WellFormed(ModelCalls[2]) /\ Len(Sent(ModelCalls[2])) > 3
    /\ Len(ret.quiz.questions) = 5
    /\ ret.quiz.questions[2].question_type = "mcq"
    /\ ret.quiz.questions[3].question_type = "short_answer"

\* C14: whatever the type asked for, the number n >= 0 and the replies of the
\* model, a quiz that generate_quiz returns has at most n questions, and
\* exactly n when every call of the model got a well-formed reply with at
\* least as many questions as the call asked for.
C14_AtMostRequested ==
    QuizReturned =>
        /\ Len(ret.quiz.questions) <= ret.request.num_questions
        /\ (\A i \in DOMAIN ModelCalls :
               /\ WellFormed(ModelCalls[i])
               /\ Len(Sent(ModelCalls[i])) >= ModelCalls[i].num_questions)
           => Len(ret.quiz.questions) = ret.request.num_questions

\* a quiz of 5 questions of one type came back from a reply that held more
C14_Witness ==
    /\ QuizReturned
    /\ ret.request.question_type \in QuestionTypes
    /\ ret.request.num_questions = 5
    /\ WellFormed(ModelCalls[1])
    /\ Len(Sent(ModelCalls[1])) > 5
    /\ Len(ret.quiz.questions) = 5

\* C15: a generation request made while the index holds no chunk ends with
\* the error "No documents available. Please upload study materials first."
\* (a ValueError, status 400), makes no call of the model, and leaves the quiz
\* store and the progress store as they were.
C15_NoContent ==
    [][(vector_store.chunks = <<>> /\ ret'.op = "generate_quiz") =>
          /\ ret'.status = 400
          /\ ret'.detail = NoDocumentsAvailable
          /\ "quiz" \notin DOMAIN ret'
          /\ \A i \in DOMAIN external_calls' : external_calls'[i].call # "llm"
          /\ quizzes' = quizzes
          /\ progress' = progress]_vars

\* a file without text was uploaded, and the generation request that followed
\* was refused for lack of documents
C15_Witness ==
    /\ Generated
    /\ Len(uploads) = 1
    /\ vector_store.chunks = <<>>
    /\ ret.status = 400
    /\ ret.detail = NoDocumentsAvailable
    /\ ModelCalls = <<>>
    /\ quizzes = EmptyDict

\* C18: (the claim as the specification states it) every question of a quiz
\* that generate_quiz returns has a topic that is a non-empty string.
C18_TopicNonEmpty ==
    QuizReturned =>
        \A i \in DOMAIN ret.quiz.questions :
            /\ ret.quiz.questions[i].topic.type = "str"
            /\ ret.quiz.questions[i].topic.value # ""

\* the context the last generation request built
ContextBuilt ==
    context_of(get_relevant_chunks(external_calls[1].k, external_calls[1].ranking))

\* the number of sentences of text s, taken between the places where ". "
\* stands, that are longer than 50 characters
LongSentences(s) ==
    LET stops == {i \in 1..(Len(s) - 1) : s[i] = "." /\ s[i + 1] = " "}
        starts == {1} \cup {i + 2 : i \in stops}
        end_of(a) == IF \E i \in stops : i >= a
                     THEN (CHOOSE i \in stops : i >= a /\ \A j \in stops : j >= a => i <= j) - 1
                     ELSE Len(s)
    IN  Cardinality({a \in starts : end_of(a) - a + 1 > 50})

\* C20: (the claim as the specification states it) when the reply to a call
\* is not JSON, so that the fallback builds the questions, the quiz holds
\* min(number asked of the call, number of sentences of the context longer
\* than 50 characters) questions of the type of that call.
C20_FallbackCount ==
    QuizReturned =>
        \A i \in DOMAIN ModelCalls :
            LET c == ModelCalls[i]
                long == LongSentences(ContextBuilt)
                built == {j \in DOMAIN ret.quiz.questions :
                             ret.quiz.questions[j].question_type = c.op}
            IN  Unparsed(c) =>
                   Cardinality(built) = IF c.num_questions < long THEN c.num_questions ELSE long

----------------------------------------------------------------------------
(* Uploads, questions and the clearing of the index *)

PlantsAreGreen == <<"p","l","a","n","t","s"," ","a","r","e"," ","g","r","e","e","n"," ">>

NotesTxt ==
    [filename |-> <<"n","o","t","e","s",".","t","x","t">>, readable |-> TRUE,
     chunks |-> <<ChunkWater, Repeated(PlantsAreGreen, 30)>>]
\* five chunks, of 230, 200, 60, 201 and 5 characters
SlidesPdf ==
    [filename |-> <<"W","e","e","k"," ","1",".","S","l","i","d","e","s",".","P","D","F">>, readable |-> TRUE,
     chunks |-> <<Repeated(LeavesTakeInLight, 230), Repeated(WaterMoves, 200),
                  Repeated(MitochondriaMakeEnergy, 60), Repeated(PlantsAreGreen, 201),
                  <<"C","e","l","l","s">>>>]
\* a file its loader cannot read
ThesisDocx == [filename |-> <<"t","h","e","s","i","s",".","d","o","c","x">>, readable |-> FALSE, chunks |-> <<>>]
ArchiveTarGz ==
    [filename |-> <<"a","r","c","h","i","v","e",".","t","a","r",".","g","z">>, readable |-> TRUE, chunks |-> <<ChunkWater>>]
\* a name without a dot
Readme == [filename |-> <<"R","E","A","D","M","E">>, readable |-> TRUE, chunks |-> <<ChunkWater>>]
PdfExe == [filename |-> <<"n","o","t","e","s",".","p","d","f",".","E","X","E">>, readable |-> TRUE, chunks |-> <<ChunkWater>>]

DocumentFiles == {NotesTxt, SlidesPdf, ThesisDocx, ArchiveTarGz, Readme, PdfExe}

Questions == {"What do mitochondria do?", "What moves water?"}

\* what the chat model does with the prompt
ChatReplies == {[content |-> "I don't know."], [raised |-> "APIConnectionError"]}

\* at most this many files are stored by the upload handler
MaxUploads == 2

NextDocuments ==
    \/ \E file \in DocumentFiles :
          /\ Len(uploads) < MaxUploads
          /\ upload_document(file)
    \/ \E question \in Questions, ranking \in Rankings, llm \in ChatReplies :
          answer_question(question, ranking, llm)
    \/ clear_vector_store

SpecDocuments == Init /\ [][NextDocuments]_vars

----------------------------------------------------------------------------
(* The claims on the document index *)

\* C16: (the claim as the specification states it) a question asked while
\* the index holds no chunk is answered, as a success, with the fixed answer
\* that tells the user to upload study materials first and with no evidence,
\* and the chat model is not called.
C16_NoChunksSentinel ==
    (ret.op = "answer_question" /\ vector_store.chunks = <<>>) =>
        /\ ret.status = "ok"
        /\ ret.answer = NoDocumentsAnswer
        /\ ret.sources = <<>>
        /\ \A i \in DOMAIN external_calls : external_calls[i].call # "llm"

\* the type a file name declares: what follows its last dot (the whole name
\* when it has none), in lower case
DeclaredType(filename) ==
    LET dots == {i \in DOMAIN filename : filename[i] = "."}
        last == IF dots = {} THEN 0 ELSE CHOOSE i \in dots : \A j \in dots : j <= i
    IN  lower(SubSeq(filename, last + 1, Len(filename)))

\* C17: an upload whose file name declares a type other than pdf, docx and
\* txt fails with the unsupported-type error, and nothing was done for it: no
\* file was written to the upload directory, no loader was run, and the index
\* holds the chunks it held.
C17_UnsupportedRejected ==
    [][(/\ ret'.op = "upload_document"
        /\ DeclaredType(ret'.filename) \notin {Pdf, Docx, Txt}) =>
          /\ ret'.status # 200
          /\ ret'.detail = UnsupportedFileType
          /\ uploads' = uploads
          /\ external_calls' = <<>>
          /\ vector_store' = vector_store]_vars

\* archive.tar.gz was refused while the upload directory and the index held
\* an earlier file
C17_Witness ==
    /\ ret.op = "upload_document"
    /\ ret.filename = ArchiveTarGz.filename
    /\ ret.status # 200
    /\ ret.detail = UnsupportedFileType
    /\ Len(uploads) = 1
    /\ vector_store.chunks # <<>>

----------------------------------------------------------------------------
(* The summary after many submissions: one quiz of one question, answered
   rightly or not at all, and the summary read at any time *)

SummaryQuizId == "s1"

SummaryAnswerMaps == {EmptyDict, (0 :> Paris)}

\* at most this many successful submissions
MaxSummarySubmits == 11

NextSummary ==
    \/ /\ SummaryQuizId \notin DOMAIN quizzes
       /\ save_quiz(quiz_data_of(SummaryQuizId, <<QCapital>>, clock))
    \/ \E answers \in SummaryAnswerMaps :
          /\ Len(activity_log) < MaxSummarySubmits
          /\ submit_quiz(SummaryQuizId, answers)
    \/ get_progress

SpecSummary == Init /\ [][NextSummary]_vars

\* the mean of the scores, exactly
ExactMean(scores) ==
    IF scores = <<>> THEN <<0, 1>>
    ELSE LET total == RatioSum(scores) IN Ratio(total[1], total[2] * Len(scores))

\* x is a number of hundredths, and no further than half a hundredth from y
NearestHundredth(x, y) ==
    LET diff == x[1] * y[2] - y[1] * x[2]
        dist == IF diff < 0 THEN 0 - diff ELSE diff
    IN  /\ 100 % x[2] = 0
        /\ 200 * dist <= x[2] * y[2]

\* what the summary s reports of the stored progress p, but for its average
Reported(s, p) ==
    LET stored == Get(p, "recent_activity", <<>>)
        returned == s.recent_activity
        n == IF Len(stored) < 10 THEN Len(stored) ELSE 10
    IN  /\ s.total_quizzes = Get(p, "total_quizzes", 0)
        /\ s.total_questions_attempted = Get(p, "total_questions_attempted", 0)
        /\ Len(returned) = n
        /\ \A i \in 1..n : returned[i] = stored[Len(stored) - n + i]

\* C19: (the claim as the specification states it) the summary reports the
\* two totals as stored, the mean of all the scores as the average (0 when
\* there is none), and the last min(10, stored count) activity entries in
\* their stored order; reading it changes neither store.
C19_ExactMean ==
    [][ret'.op = "get_progress" =>
          /\ Reported(ret'.summary, progress)
          /\ ret'.summary.average_score = ExactMean(Get(progress, "scores", <<>>))
          /\ progress' = progress
          /\ quizzes' = quizzes]_vars

\* C19: the summary reports the two totals as stored, as the average the
\* mean of all the scores rounded to two decimal places (0 when there is
\* none), and the last min(10, stored count) activity entries in their stored
\* order; reading it changes neither store.
C19_RoundedMean ==
    [][ret'.op = "get_progress" =>
          /\ Reported(ret'.summary, progress)
          /\ NearestHundredth(ret'.summary.average_score,
                              ExactMean(Get(progress, "scores", <<>>)))
          /\ (Get(progress, "scores", <<>>) = <<>> => ret'.summary.average_score = <<0, 1>>)
          /\ progress' = progress
          /\ quizzes' = quizzes]_vars

\* a summary read after eleven submissions, whose mean is no number of
\* hundredths
C19_Witness ==
    /\ ret.op = "get_progress"
    /\ Len(Get(progress, "scores", <<>>)) = 11
    /\ Len(Get(progress, "recent_activity", <<>>)) = 11
    /\ Len(ret.summary.recent_activity) = 10
    /\ ret.summary.total_quizzes = 11
    /\ ret.summary.average_score # ExactMean(Get(progress, "scores", <<>>))

----------------------------------------------------------------------------
(* Claims on resubmission, on positions and on the totals *)

\* the name under which the progress file holds topic t: JSON writes the key
\* None as "null"
StoredTopic(t) == IF t = NoneTopic THEN "null" ELSE t

\* the total that progress p holds for the topic stored as name, 0 if none
TotalOf(p, name) ==
    LET perf == Get(p, "topic_performance", <<>>)
    IN  IF \E i \in DOMAIN perf : perf[i].topic = name
        THEN perf[CHOOSE i \in DOMAIN perf : perf[i].topic = name].total
        ELSE 0

\* d, a dict keyed by positions, as the quiz store holds it: keyed by their
\* decimal strings
StoredAs(stored, d) ==
    /\ DOMAIN stored = {ToString(k) : k \in DOMAIN d}
    /\ \A k \in DOMAIN d : stored[ToString(k)] = d[k]

\* this step is a submit_quiz that succeeds on a quiz submitted before
Resubmission ==
    /\ ret'.op = "submit_quiz"
    /\ ret'.status = "ok"
    /\ ret'.quiz_id \in DOMAIN quizzes
    /\ quizzes[ret'.quiz_id].submitted

\* this step stored the submission it returned in place of the earlier one
\* and counted it in the progress store once more, the totals of the topics
\* in topics included
Recounted(topics) ==
    LET id == ret'.quiz_id
        n == Len(quizzes[id].questions)
        before == Get(progress, "recent_activity", <<>>)
        after == Get(progress', "recent_activity", <<>>)
    IN  /\ quizzes'[id].submitted
        /\ quizzes'[id].score = ret'.score
        /\ StoredAs(quizzes'[id].answers, ret'.answers)
        /\ StoredAs(quizzes'[id].results, ret'.results)
        /\ \A k \in DOMAIN ret'.results :
              ret'.results[k].user_answer = Get(ret'.answers, k, <<>>)
        /\ Get(progress', "total_quizzes", 0) = Get(progress, "total_quizzes", 0) + 1
        /\ Get(progress', "scores", <<>>) = Append(Get(progress, "scores", <<>>), ret'.score)
        /\ Get(progress', "total_questions_attempted", 0)
              = Get(progress, "total_questions_attempted", 0) + n
        /\ \A t \in topics :
              TotalOf(progress', StoredTopic(t)) =
                  TotalOf(progress, StoredTopic(t))
                     + Cardinality({k \in DOMAIN ret'.results : ret'.results[k].topic = t})
        /\ Len(after) = Len(before) + 1
        /\ after[Len(after)].quiz_id = id
        /\ after[Len(after)].score = ret'.score

\* C21: (the claim as the specification states it) a second submit_quiz for
\* a quiz is accepted: it stores the score, answers and results of the second
\* submission in place of the earlier ones and counts the quiz again in the
\* progress store: total_quizzes one more, the score appended,
\* total_questions_attempted and the total of every topic of the quiz
\* increased again, one more activity entry.
C21_ResubmissionDoubleCounts ==
    [][Resubmission =>
          Recounted({ret'.results[k].topic : k \in DOMAIN ret'.results})]_vars

\* the same for the topics that are strings
C21_StringTopicsRecounted ==
    [][Resubmission =>
          Recounted({ret'.results[k].topic : k \in DOMAIN ret'.results} \ {NoneTopic})]_vars

\* a quiz of four questions was submitted twice with different scores
C21_Resubmitted ==
    /\ Submitted
    /\ Len(activity_log) = 2
    /\ activity_log[1].quiz_id = activity_log[2].quiz_id
    /\ activity_log[1].score # activity_log[2].score
    /\ ret.total_questions = 4
    /\ TotalQuizzes = 2

----------------------------------------------------------------------------
(* The evidence of an answer *)

\* the last request was a question that the chat model answered
Answered == ret.op = "answer_question" /\ ret.status = "ok" /\ external_calls # <<>>

\* the orders in which the index can have ranked its chunks
RetrievalOrders ==
    {vector_store.chunks,
     [i \in 1..Len(vector_store.chunks) |->
         vector_store.chunks[Len(vector_store.chunks) + 1 - i]]}

\* the text, cut after 200 characters when it is longer
Preview(text) == IF Len(text) <= 200 THEN text ELSE SubSeq(text, 1, 200)

\* sources are made from the first 3 of the first 4 chunks of order, one
\* after the other, the content of each being the preview of the text of the
\* chunk followed by suffix
EvidenceOf(sources, order, suffix) ==
    LET k == IF Len(order) < 4 THEN Len(order) ELSE 4
        n == IF k < 3 THEN k ELSE 3
    IN  /\ Len(sources) = n
        /\ \A i \in 1..n : sources[i].content = Preview(order[i].page_content) \o suffix

\* C22: (the claim as the specification states it) the evidence of an answer
\* is at most 3 items, made from the first 3 of the 4 chunks retrieved, in
\* their order, and the content of an item is the text of its chunk cut to at
\* most 200 characters, a text of 200 characters or fewer being unchanged.
C22_EvidencePreview ==
    Answered =>
        /\ Len(ret.sources) <= 3
        /\ \A i \in DOMAIN ret.sources : Len(ret.sources[i].content) <= 200
        /\ \E order \in RetrievalOrders : EvidenceOf(ret.sources, order, <<>>)

\* what the code returns: the same items, each content followed by three
\* dots, whether the text was cut or not
C22_EvidenceWithDots ==
    Answered =>
        /\ Len(ret.sources) <= 3
        /\ \E order \in RetrievalOrders : EvidenceOf(ret.sources, order, <<".", ".", ".">>)

\* an answer with three items of evidence out of five chunks, one of them a
\* chunk of exactly 200 characters and one a longer chunk
C22_ThreeOfFive ==
    /\ Answered
    /\ Len(vector_store.chunks) >= 5
    /\ Len(ret.sources) = 3
    /\ \E i \in 1..3 : Len(ret.sources[i].content) = 203
    /\ \E i \in 1..3 : Len(ret.sources[i].content) < 203

----------------------------------------------------------------------------
(* Positions: quizzes whose questions have a topic, none, or a null one, and
   answers at positions the quiz does not have *)

\* a question saved without the key "topic"
QUntitled ==
    [question |-> "capital of France, again", options |-> <<Paris, Rome>>,
     correct_answer |-> Paris, question_type |-> "mcq"]

PositionQuizIds == {"p1", "p2"}

PositionQuestionLists == {<<QCapital, QUntitled, QRome>>, <<QUntitled, QCell>>}

InRange == (0 :> Paris) @@ (1 :> Rome) @@ (2 :> Rome)
\* answers at -1, 3 and 7 besides those at 0 and 1
OutOfRange == (0 :> Paris) @@ (1 :> Rome) @@ (3 :> Rome) @@ (7 :> Paris) @@ (-1 :> Paris)
OnlyOutOfRange == (5 :> Paris)

PositionAnswerMaps == {EmptyDict, InRange, OutOfRange, OnlyOutOfRange}

\* at most this many successful submissions
MaxPositionSubmits == 2

NextPositions ==
    \/ \E id \in PositionQuizIds, questions \in PositionQuestionLists :
          /\ id \notin DOMAIN quizzes
          /\ save_quiz(quiz_data_of(id, questions, clock))
    \/ \E id \in PositionQuizIds, answers \in PositionAnswerMaps :
          /\ Len(activity_log) < MaxPositionSubmits
          /\ submit_quiz(id, answers)

SpecPositions == Init /\ [][NextPositions]_vars

\* the question has no topic: the key is missing, or its value is null
HasNoTopic(question) == "topic" \notin DOMAIN question \/ question.topic = NoneTopic

\* this step is a submit_quiz that succeeds
SubmitStep ==
    /\ ret'.op = "submit_quiz"
    /\ ret'.status = "ok"
    /\ ret'.quiz_id \in DOMAIN quizzes

\* this step's results are one per position of the quiz, each made from the
\* question at its position, the questions in untitled getting topic General;
\* answers at other positions change neither results nor score; the
\* questions of the quiz and every other quiz are as before
PositionalResults(untitled) ==
    LET id == ret'.quiz_id
        questions == quizzes[id].questions
        n == Len(questions)
        results == ret'.results
        in_range == Restrict(ret'.answers, 0..(n - 1))
    IN  /\ DOMAIN results = 0..(n - 1)
        /\ \A i \in 0..(n - 1) :
              /\ results[i].question = questions[i + 1].question
              /\ results[i].correct_answer = questions[i + 1].correct_answer
              /\ questions[i + 1] \in untitled => results[i].topic = "General"
              /\ ~HasNoTopic(questions[i + 1]) => results[i].topic = questions[i + 1].topic
        /\ results = grade(questions, in_range)
        /\ ret'.score = score_of(count_correct(grade(questions, in_range)), n)
        /\ quizzes'[id].questions = questions
        /\ DOMAIN quizzes' = DOMAIN quizzes
        /\ \A other \in DOMAIN quizzes \ {id} : quizzes'[other] = quizzes[other]

\* C23: (the claim as the specification states it) a submit_quiz on a quiz
\* of n questions gives results for exactly the positions 0..n-1, result i made
\* from question i: its text, its correct answer and its topic, General when
\* it has no topic; answers at other positions have no effect on results and
\* score; the questions of the quiz and all other quizzes are unchanged.
C23_PositionalResults ==
    [][SubmitStep =>
          PositionalResults({q \in {quizzes[ret'.quiz_id].questions[i] :
                                       i \in DOMAIN quizzes[ret'.quiz_id].questions} :
                               HasNoTopic(q)})]_vars

\* the same, General being claimed only for a question without the key
C23_MissingKeyIsGeneral ==
    [][SubmitStep =>
          PositionalResults({q \in {quizzes[ret'.quiz_id].questions[i] :
                                       i \in DOMAIN quizzes[ret'.quiz_id].questions} :
                               "topic" \notin DOMAIN q})]_vars

\* a quiz of three questions was submitted with answers at -1, 3 and 7 while
\* another quiz was stored
C23_OutOfRangeSubmitted ==
    /\ Submitted
    /\ ret.answers = OutOfRange
    /\ ret.total_questions = 3
    /\ DOMAIN ret.results = 0..2
    /\ ret.results[1].topic = "General"
    /\ Cardinality(DOMAIN quizzes) = 2

----------------------------------------------------------------------------
(* The totals of the progress store *)

\* the stored quizzes that are marked as submitted
SubmittedQuizzes == {id \in DOMAIN quizzes : quizzes[id].submitted}

\* total_quizzes is the number of successful submit_quiz calls, which is at
\* least the number of stored quizzes marked as submitted
QuizzesCounted ==
    /\ TotalQuizzes = Len(activity_log)
    /\ Cardinality(SubmittedQuizzes) <= TotalQuizzes

\* total_questions_attempted is the sum of the totals of the topics
QuestionsCounted ==
    Get(progress, "total_questions_attempted", 0) = SumOf(TopicPerformance, "total")

\* some stored quiz has a question whose topic is null
NullTopicStored ==
    \E id \in DOMAIN quizzes : \E i \in DOMAIN quizzes[id].questions :
        Get(quizzes[id].questions[i], "topic", "General") = NoneTopic

\* C24: (the claim as the specification states it) after any sequence of
\* completed save_quiz and submit_quiz calls from empty stores,
\* total_questions_attempted is the sum of the totals of all topics,
\* total_quizzes is the number of successful submissions and at least the
\* number of stored quizzes marked as submitted, and a save_quiz leaves the
\* progress store as it was.
C24_TotalsConsistent ==
    [][/\ QuestionsCounted'
       /\ QuizzesCounted'
       /\ ret'.op = "save_quiz" => progress' = progress]_vars

\* the same, the sum of the totals being claimed only while no stored quiz
\* has a question with a null topic
C24_TotalsWithoutNullTopic ==
    [][/\ ~NullTopicStored' => QuestionsCounted'
       /\ QuizzesCounted'
       /\ ret'.op = "save_quiz" => progress' = progress]_vars

\* a quiz was saved after two submissions of another one, which hold several
\* topics
C24_SavedAfterSubmissions ==
    /\ ret.op = "save_quiz"
    /\ TotalQuizzes = 2
    /\ Cardinality(SubmittedQuizzes) = 1
    /\ Len(TopicPerformance) >= 2

====
